---- MODULE Spec2Model ----
(***************************************************************************)
(* Model of the customer-satisfaction backend: models/review.js            *)
(* (createReview, updateReview, the two validators),                       *)
(* services/dataService.js (the SQLite statements and their wrappers),     *)
(* data/database.js (the table schema), routes/reviews.js (the CRUD        *)
(* handlers), routes/metrics.js (daily metrics, period comparison and the  *)
(* summary), routes/usage.js (the details table) and routes/export.js      *)
(* (parseAcceptHeader).                                                    *)
(***************************************************************************)
EXTENDS Integers, Sequences, FiniteSets, TLC

VARIABLES
    store,     \* the rows of table reviews, in rowid (insertion) order
    uuids,     \* how many ids uuidv4() has handed out
    now,       \* the system clock, an index into Timeline (one step = 1 ms)
    req,       \* the request (or call) handled last
    res,       \* the response (or return value) it got
    numReq,    \* number of HTTP requests handled so far
    born,      \* history: the (id, createdAt) pairs createReview assigned
    gone       \* history: the ids whose review a DELETE removed

vars == <<store, uuids, now, req, res, numReq, born, gone>>

----------------------------------------------------------------------------
(* Bounds of the model.                                                    *)

MaxRequests == 3   \* HTTP requests per behaviour
MaxTime == 3       \* the clock stops advancing at Timeline[MaxTime]
MaxReviews == 2    \* reviews created per behaviour (uuidv4 calls)
MaxRows == 2       \* rows of the table the query specification starts from
MaxSample == 3     \* reviews of the list the metrics functions are given
MaxCandidates == 2 \* comma-separated candidates of an Accept header

----------------------------------------------------------------------------
(* JavaScript values.  A value is a record [t, s, n, d]: t is its type tag,*)
(* s the text of a string, n/d the value of a number (d > 0), n = 1 for    *)
(* the boolean true.  JSON bodies carry strings, finite numbers, booleans, *)
(* null, arrays and objects; undefined is an absent key.                   *)

Undef == [t |-> "undefined", s |-> "", n |-> 0, d |-> 1]
Null == [t |-> "null", s |-> "", n |-> 0, d |-> 1]
Str(x) == [t |-> "string", s |-> x, n |-> 0, d |-> 1]
Num(k) == [t |-> "number", s |-> "", n |-> k, d |-> 1]
Frac(k, m) == [t |-> "number", s |-> "", n |-> k, d |-> m]
Bool(b) == [t |-> "boolean", s |-> "", n |-> IF b THEN 1 ELSE 0, d |-> 1]

\* typeof v
typeof(v) == IF v.t = "null" THEN "object" ELSE v.t

\* ToBoolean(v), as used by !v, v && ..., v || ...
Truthy(v) ==
    CASE v.t = "string" -> v.s /= ""
      [] v.t = "number" -> v.n /= 0
      [] v.t = "boolean" -> v.n = 1
      [] v.t \in {"undefined", "null"} -> FALSE
      [] OTHER -> TRUE

\* a < b for two numbers
NumLess(a, b) == a.n * b.d < b.n * a.d

\* A JavaScript object is a function from its own keys to values.
EmptyObj == [k \in {} |-> Undef]

\* o[k]: undefined for a key the object does not have
Get(o, k) == IF k \in DOMAIN o THEN o[k] ELSE Undef

\* { ...a, ...b }
Spread(a, b) ==
    [k \in (DOMAIN a) \cup (DOMAIN b) |-> IF k \in DOMAIN b THEN b[k] ELSE a[k]]

\* A payload is what a handler or validator receives as its argument: an
\* object, or no object at all (undefined, null, a primitive).
Obj(o) == [t |-> "object", o |-> o]
NoObj(tag) == [t |-> tag, o |-> EmptyObj]

\* payload.k throws a TypeError exactly for undefined and null
Throws(p) == p.t \in {"undefined", "null"}

StatusEnum == {"pending", "approved", "rejected"}

\* ['pending', 'approved', 'rejected'].includes(v)  (SameValueZero)
IncludesStatus(v) == v.t = "string" /\ v.s \in StatusEnum

----------------------------------------------------------------------------
(* models/review.js: the validators.                                       *)

Threw == [threw |-> TRUE, isValid |-> FALSE, errors |-> <<>>]

Validation(errors) == [threw |-> FALSE, isValid |-> errors = <<>>, errors |-> errors]

RequiredString(rd, k) ==
    IF ~Truthy(Get(rd, k)) \/ typeof(Get(rd, k)) /= "string"
    THEN <<k \o " is required and must be a string">>
    ELSE <<>>

RatingOutOfRange(v) ==
    typeof(v) /= "number" \/ NumLess(v, Num(1)) \/ NumLess(Num(5), v)

validateReviewData(p) ==
    IF Throws(p) THEN Threw
    ELSE LET rd == p.o
             rating == Get(rd, "rating")
             eRating ==
                 IF rating.t \in {"undefined", "null"}
                 THEN <<"rating is required">>
                 ELSE IF RatingOutOfRange(rating)
                      THEN <<"rating must be a number between 1 and 5">>
                      ELSE <<>>
             eStatus ==
                 IF Truthy(Get(rd, "status")) /\ ~IncludesStatus(Get(rd, "status"))
                 THEN <<"status must be one of: pending, approved, rejected">>
                 ELSE <<>>
         IN Validation(RequiredString(rd, "customerId")
                       \o RequiredString(rd, "customerName")
                       \o RequiredString(rd, "title")
                       \o RequiredString(rd, "comment")
                       \o eRating \o eStatus)

OptionalString(ud, k) ==
    IF Get(ud, k) /= Undef /\ typeof(Get(ud, k)) /= "string"
    THEN <<k \o " must be a string">>
    ELSE <<>>

validateUpdateData(p) ==
    IF Throws(p) THEN Threw
    ELSE LET ud == p.o
             eRating ==
                 IF Get(ud, "rating") /= Undef /\ RatingOutOfRange(Get(ud, "rating"))
                 THEN <<"rating must be a number between 1 and 5">>
                 ELSE <<>>
             eStatus ==
                 IF Get(ud, "status") /= Undef /\ ~IncludesStatus(Get(ud, "status"))
                 THEN <<"status must be one of: pending, approved, rejected">>
                 ELSE <<>>
         IN Validation(OptionalString(ud, "customerId")
                       \o OptionalString(ud, "customerName")
                       \o OptionalString(ud, "title")
                       \o OptionalString(ud, "comment")
                       \o eRating \o eStatus)

----------------------------------------------------------------------------
(* Time and identifiers.  new Date().toISOString() yields a 24-character   *)
(* UTC text whose byte order is the order of the instants; Timeline lists  *)
(* the texts of the model in that order.  Timeline[1] is an instant before *)
(* the server started (a stale timestamp a client may send); the clock     *)
(* starts at Timeline[2].                                                  *)

Timeline ==
    << "2020-01-01T00:00:00.000Z",
       "2025-06-01T12:00:00.000Z", "2025-06-01T12:00:00.001Z",
       "2025-06-01T12:00:00.002Z", "2025-06-01T12:00:00.003Z",
       "2025-06-01T12:00:00.004Z" >>

\* new Date().toISOString()
toISOString == Timeline[now]

\* position of an ISO text in byte order (the order SQLite compares TEXT in)
TextRank(x) == CHOOSE i \in 1..Len(Timeline) : Timeline[i] = x

UUIDs == << "uuid-1", "uuid-2", "uuid-3", "uuid-4" >>

\* uuidv4(): an id that was never handed out before
uuidv4 == UUIDs[uuids + 1]

----------------------------------------------------------------------------
(* models/review.js: building and updating review objects.                 *)

createReview(reviewData) ==
    [ id |-> Str(uuidv4),
      customerId |-> Get(reviewData, "customerId"),
      customerName |-> Get(reviewData, "customerName"),
      rating |-> Get(reviewData, "rating"),
      title |-> Get(reviewData, "title"),
      comment |-> Get(reviewData, "comment"),
      status |-> IF Truthy(Get(reviewData, "status"))
                 THEN Get(reviewData, "status") ELSE Str("pending"),
      createdAt |-> Str(toISOString),
      updatedAt |-> Str(toISOString) ]

\* updateReview rebuilding the status default that createReview applies
updateReview_ResetStatus(existingReview, updateData) ==
    Spread(Spread(existingReview, updateData),
           [status |-> IF "status" \in DOMAIN updateData
                       THEN updateData.status ELSE Str("pending"),
            updatedAt |-> Str(toISOString)])

\* updateReview with the timestamp spread before the body instead of after
updateReview_BodyLast(existingReview, updateData) ==
    Spread(Spread(existingReview, [updatedAt |-> Str(toISOString)]), updateData)

updateReview(existingReview, updateData) ==
    Spread(Spread(existingReview, updateData), [updatedAt |-> Str(toISOString)])

----------------------------------------------------------------------------
(* data/database.js and services/dataService.js: the table and statements. *)

Columns ==
    {"id", "customerId", "customerName", "rating", "title", "comment",
     "status", "createdAt", "updatedAt"}

\* CREATE TABLE reviews: every column NOT NULL, the two CHECK constraints.
\* rating has INTEGER affinity: a number with a fractional part is stored
\* (and read back) as the REAL it is, a whole number as an INTEGER.
SchemaOk(row) ==
    /\ \A c \in Columns : row[c].t \notin {"undefined", "null"}
    /\ row.rating.t = "number"
    /\ ~NumLess(row.rating, Num(1)) /\ ~NumLess(Num(5), row.rating)
    /\ row.status.t = "string" /\ row.status.s \in StatusEnum

RowIndex(table, id) == {i \in 1..Len(table) : table[i].id = Str(id)}

\* statements.getReviewById.get(id) || null
getReviewById(id) ==
    IF RowIndex(store, id) = {}
    THEN NoObj("null")
    ELSE Obj(store[CHOOSE i \in RowIndex(store, id) : TRUE])

\* statements.insertReview.run(...): the row the nine bound values make
InsertRow(review) == [c \in Columns |-> Get(review, c)]

\* saveReview(review): [threw, table, value]
saveReview(review) ==
    IF SchemaOk(InsertRow(review)) /\ RowIndex(store, review.id.s) = {}
    THEN [threw |-> FALSE, table |-> Append(store, InsertRow(review)),
          value |-> Obj(review)]
    ELSE [threw |-> TRUE, table |-> store, value |-> NoObj("undefined")]

\* the UPDATE statement writing createdAt as well
UpdateRow_WithCreatedAt(row, u) ==
    [row EXCEPT !.customerId = Get(u, "customerId"),
                !.customerName = Get(u, "customerName"),
                !.rating = Get(u, "rating"),
                !.title = Get(u, "title"),
                !.comment = Get(u, "comment"),
                !.status = Get(u, "status"),
                !.createdAt = Get(u, "createdAt"),
                !.updatedAt = Get(u, "updatedAt")]

\* statements.updateReview: UPDATE reviews SET <seven columns> WHERE id = ?
UpdateRow(row, u) ==
    [row EXCEPT !.customerId = Get(u, "customerId"),
                !.customerName = Get(u, "customerName"),
                !.rating = Get(u, "rating"),
                !.title = Get(u, "title"),
                !.comment = Get(u, "comment"),
                !.status = Get(u, "status"),
                !.updatedAt = Get(u, "updatedAt")]

\* updateReviewById(id, updatedReview): [threw, table, value]
updateReviewById(id, updatedReview) ==
    LET hit == RowIndex(store, id)
        table == [i \in 1..Len(store) |->
                     IF i \in hit THEN UpdateRow(store[i], updatedReview)
                     ELSE store[i]]
    IN IF \E i \in hit : ~SchemaOk(table[i])
       THEN [threw |-> TRUE, table |-> store, value |-> NoObj("undefined")]
       ELSE IF hit = {}
            THEN [threw |-> FALSE, table |-> store, value |-> NoObj("null")]
            ELSE [threw |-> FALSE, table |-> table, value |-> Obj(updatedReview)]

\* the rows of a table without those at the indices in drop, order kept
RECURSIVE Without(_, _)
Without(table, drop) ==
    IF table = <<>> THEN <<>>
    ELSE LET rest == Without(SubSeq(table, 1, Len(table) - 1), drop)
         IN IF Len(table) \in drop THEN rest
            ELSE Append(rest, table[Len(table)])

\* deleteReviewById with a DELETE that lost its WHERE clause
deleteReviewById_NoWhere(id) ==
    [table |-> <<>>, value |-> RowIndex(store, id) /= {}]

\* deleteReviewById(id): [table, value] with value = (result.changes > 0)
deleteReviewById(id) ==
    [table |-> Without(store, RowIndex(store, id)),
     value |-> RowIndex(store, id) /= {}]

----------------------------------------------------------------------------
(* services/dataService.js: getReviewsWithFilters.  A query is the list of *)
(* its '?' placeholders in text order, each named by the column it is      *)
(* compared with or by the clause (LIMIT, OFFSET) it belongs to.           *)

\* col = ? between a stored value and a bound parameter
SqlEquals(v, param) ==
    IF v.t = "number" /\ param.t = "number"
    THEN v.n * param.d = param.n * v.d
    ELSE v = param

\* the rows (as indices) that satisfy "WHERE 1=1 AND c1 = ? AND c2 = ? ..."
Matching(table, where, params) ==
    {i \in 1..Len(table) :
        \A j \in 1..Len(where) : SqlEquals(table[i][where[j]], params[j])}

\* SQLite's grammar: "LIMIT expr [OFFSET expr]"; OFFSET alone does not parse
Prepares(clauses) ==
    (\E j \in 1..Len(clauses) : clauses[j] = "OFFSET")
        => (\E j \in 1..Len(clauses) : clauses[j] = "LIMIT")

\* ORDER BY createdAt DESC: every listing of the rows in which createdAt
\* never increases (SQL leaves the order of equal keys to the query plan)
OrderedDesc(table, rows) ==
    {f \in [1..Cardinality(rows) -> rows] :
        /\ \A a, b \in 1..Cardinality(rows) : a /= b => f[a] /= f[b]
        /\ \A a, b \in 1..Cardinality(rows) :
              a < b => TextRank(table[f[a]].createdAt.s)
                          >= TextRank(table[f[b]].createdAt.s)}

\* elements first+1 .. first+count of a sequence, as far as they exist
Slice(seq, first, count) ==
    [j \in 1..(IF Len(seq) - first < count
               THEN (IF Len(seq) > first THEN Len(seq) - first ELSE 0)
               ELSE count) |-> seq[first + j]]

\* LIMIT n OFFSET m applied to the ordered rows: a negative limit is no
\* limit, a negative offset is offset 0
Page(seq, hasLimit, limit, hasOffset, offset) ==
    Slice(seq,
          IF hasOffset /\ offset > 0 THEN offset ELSE 0,
          IF hasLimit /\ limit >= 0 THEN limit ELSE Len(seq))

QueryThrew ==
    [threw |-> TRUE, reviews |-> <<>>, total |-> 0, limit |-> Undef, offset |-> Undef]

\* getReviewsWithFilters(options): the set of results it can return
getReviewsWithFilters(options) ==
    LET IsSet(k) == Truthy(Get(options, k))
        where == SelectSeq(<<"status", "rating", "customerId">>, IsSet)
        params == [j \in 1..Len(where) |-> Get(options, where[j])]
        total == Cardinality(Matching(store, where, params))
        paging == SelectSeq(<<"limit", "offset">>, IsSet)
        clauses == where \o [j \in 1..Len(paging) |->
                                IF paging[j] = "limit" THEN "LIMIT" ELSE "OFFSET"]
        allParams == params \o [j \in 1..Len(paging) |-> Get(options, paging[j])]
    IN IF ~Prepares(clauses)
       THEN {QueryThrew}
       ELSE { [threw |-> FALSE,
               reviews |-> Page([j \in 1..Len(order) |-> store[order[j]]],
                                IsSet("limit"), Get(options, "limit").n,
                                IsSet("offset"), Get(options, "offset").n),
               total |-> total,
               limit |-> IF IsSet("limit") THEN Get(options, "limit") ELSE Num(total),
               offset |-> IF IsSet("offset") THEN Get(options, "offset") ELSE Num(0)] :
              order \in OrderedDesc(store, Matching(store, where, params)) }

----------------------------------------------------------------------------
(* routes/reviews.js: the responses and the handlers.                      *)

Response(status, data) ==
    [status |-> status, success |-> TRUE, data |-> data,
     error |-> "", details |-> <<>>]

Failure(status, error, details) ==
    [status |-> status, success |-> FALSE, data |-> NoObj("undefined"),
     error |-> error, details |-> details]

InternalError == Failure(500, "Internal server error", <<>>)
NotFound == Failure(404, "Review not found", <<>>)
ValidationFailed(errors) == Failure(400, "Validation failed", errors)

Request(op, id, body) == [op |-> op, id |-> id, body |-> body]

\* router.post('/')
PostReview(body) ==
    LET validation == validateReviewData(body)
        review == createReview(body.o)
        saved == saveReview(review)
    IN /\ numReq < MaxRequests
       /\ (~validation.threw /\ validation.isValid) => uuids < MaxReviews
       /\ numReq' = numReq + 1
       /\ req' = Request("POST", "", body)
       /\ UNCHANGED <<now, gone>>
       /\ IF validation.threw
          THEN /\ res' = InternalError
               /\ UNCHANGED <<store, uuids, born>>
          ELSE IF ~validation.isValid
          THEN /\ res' = ValidationFailed(validation.errors)
               /\ UNCHANGED <<store, uuids, born>>
          ELSE /\ uuids' = uuids + 1
               /\ IF saved.threw
                  THEN /\ res' = InternalError
                       /\ UNCHANGED <<store, born>>
                  ELSE /\ res' = Response(201, saved.value)
                       /\ store' = saved.table
                       /\ born' = born \cup {<<review.id.s, review.createdAt.s>>}

\* router.get('/:id')
GetReview(id) ==
    LET review == getReviewById(id)
    IN /\ numReq < MaxRequests
       /\ numReq' = numReq + 1
       /\ req' = Request("GET", id, NoObj("undefined"))
       /\ res' = IF review.t = "null" THEN NotFound ELSE Response(200, review)
       /\ UNCHANGED <<store, uuids, now, born, gone>>

\* router.put('/:id') validating the body before it looks the review up
PutReview_ValidateFirst(id, body) ==
    LET existingReview == getReviewById(id)
        validation == validateUpdateData(body)
        updatedReview == updateReview(existingReview.o, body.o)
        saved == updateReviewById(id, updatedReview)
    IN /\ numReq < MaxRequests
       /\ numReq' = numReq + 1
       /\ req' = Request("PUT", id, body)
       /\ UNCHANGED <<uuids, now, born, gone>>
       /\ IF validation.threw
          THEN res' = InternalError /\ store' = store
          ELSE IF ~validation.isValid
          THEN res' = ValidationFailed(validation.errors) /\ store' = store
          ELSE IF existingReview.t = "null"
          THEN res' = NotFound /\ store' = store
          ELSE IF saved.threw
          THEN res' = InternalError /\ store' = store
          ELSE res' = Response(200, saved.value) /\ store' = saved.table

\* router.put('/:id')
PutReview(id, body) ==
    LET existingReview == getReviewById(id)
        validation == validateUpdateData(body)
        updatedReview == updateReview(existingReview.o, body.o)
        saved == updateReviewById(id, updatedReview)
    IN /\ numReq < MaxRequests
       /\ numReq' = numReq + 1
       /\ req' = Request("PUT", id, body)
       /\ UNCHANGED <<uuids, now, born, gone>>
       /\ IF existingReview.t = "null"
          THEN res' = NotFound /\ store' = store
          ELSE IF validation.threw
          THEN res' = InternalError /\ store' = store
          ELSE IF ~validation.isValid
          THEN res' = ValidationFailed(validation.errors) /\ store' = store
          ELSE IF saved.threw
          THEN res' = InternalError /\ store' = store
          ELSE res' = Response(200, saved.value) /\ store' = saved.table

\* router.delete('/:id')
DeleteReview(id) ==
    LET deleted == deleteReviewById(id)
    IN /\ numReq < MaxRequests
       /\ numReq' = numReq + 1
       /\ req' = Request("DELETE", id, NoObj("undefined"))
       /\ store' = deleted.table
       /\ res' = IF ~deleted.value THEN NotFound
                 ELSE Response(200, NoObj("undefined"))
       /\ gone' = IF deleted.value THEN gone \cup {id} ELSE gone
       /\ UNCHANGED <<uuids, now, born>>

\* a millisecond passes
Tick ==
    /\ now < MaxTime
    /\ now' = now + 1
    /\ UNCHANGED <<store, uuids, req, res, numReq, born, gone>>

----------------------------------------------------------------------------
(* The requests the clients of the model send.                             *)

\* an object literal without its undefined members (JSON has no undefined)
Defined(o) == [k \in {x \in DOMAIN o : o[x] /= Undef} |-> o[k]]

PostObjects ==
    { Defined([customerId |-> Str("c1"), customerName |-> Str("Ann"),
               rating |-> r, title |-> t, comment |-> Str("Fine"),
               status |-> s]) :
        r \in {Num(1), Frac(7, 2), Num(6)},
        t \in {Str("Slow"), Str("")},
        s \in {Undef, Str(""), Str("approved"), Str("bogus")} }

PostBodies == {NoObj("undefined")} \cup {Obj(o) : o \in PostObjects}

\* update bodies; id, createdAt and updatedAt are members a client may
\* send although the API does not document them
PutObjects ==
    { EmptyObj,
      [customerId |-> Str("c2")], [customerName |-> Str("")],
      [title |-> Str("")], [comment |-> Str("Better")],
      [rating |-> Frac(7, 2)], [rating |-> Num(0)],
      [status |-> Str("rejected")], [status |-> Str("")],
      [id |-> Str("uuid-9")], [createdAt |-> Str(Timeline[1])],
      [updatedAt |-> Str(Timeline[1])],
      [rating |-> Num(4), status |-> Str("approved"), comment |-> Str("Better")],
      [title |-> Str("Fast"), rating |-> Num(6)] }

PutBodies == {NoObj("undefined")} \cup {Obj(o) : o \in PutObjects}

\* the ids a client may name: the ones uuidv4 can hand out and one it cannot
RequestIds == {UUIDs[i] : i \in 1..MaxReviews} \cup {"no-such-id"}

Init ==
    /\ store = <<>>
    /\ uuids = 0
    /\ now = 2
    /\ req = Request("none", "", NoObj("undefined"))
    /\ res = Response(0, NoObj("undefined"))
    /\ numReq = 0
    /\ born = {}
    /\ gone = {}

Next ==
    \/ \E body \in PostBodies : PostReview(body)
    \/ \E id \in RequestIds : GetReview(id)
    \/ \E id \in RequestIds, body \in PutBodies : PutReview(id, body)
    \/ \E id \in RequestIds : DeleteReview(id)
    \/ Tick

Spec == Init /\ [][Next]_vars

----------------------------------------------------------------------------
(* Properties of the CRUD handlers (specification Spec).                   *)

\* a step that handles one HTTP request
RequestStep == numReq' = numReq + 1

\* the stored row of a review, given that it is stored
RowOf(table, id) == table[CHOOSE i \in RowIndex(table, id) : TRUE]

\* a number without a fractional part
IsInteger(v) == v.t = "number" /\ v.n % v.d = 0

\* a number in [1, 5]
InRange(v) == v.t = "number" /\ ~NumLess(v, Num(1)) /\ ~NumLess(Num(5), v)

BornIds == {p[1] : p \in born}

\* C1: the review returned with status 201 has a rating in [1,5], has the
\* status the body supplied, or 'pending' when the body has no status (so
\* one of pending/approved/rejected), and has createdAt = updatedAt.
C1_CreatedAsSupplied ==
    (req.op = "POST" /\ res.status = 201) =>
        LET r == res.data.o
            b == req.body.o
        IN /\ InRange(r.rating)
           /\ r.status = (IF "status" \in DOMAIN b THEN b.status ELSE Str("pending"))
           /\ r.status.t = "string" /\ r.status.s \in StatusEnum
           /\ r.createdAt = r.updatedAt

\* C2: a successful PUT changes, in the row with the request's id, only
\* columns that are members of the body, and updatedAt; every other column
\* of that row and every other row stay as they were.
C2_UpdateFrame ==
    [][(RequestStep /\ req'.op = "PUT" /\ res'.status = 200) =>
          /\ Len(store') = Len(store)
          /\ \A i \in 1..Len(store) :
                IF store[i].id = Str(req'.id)
                THEN \A c \in Columns \ ((DOMAIN req'.body.o) \cup {"updatedAt"}) :
                        store'[i][c] = store[i][c]
                ELSE store'[i] = store[i]]_vars

\* C2 witness: a PUT that set rating, status and comment of one of two
\* stored reviews succeeded.
C2_Witness ==
    /\ req.op = "PUT" /\ res.status = 200
    /\ Len(store) = 2
    /\ "rating" \in DOMAIN req.body.o
    /\ RowOf(store, req.id).rating = Num(4)
    /\ RowOf(store, req.id).status = Str("approved")

\* C3 as the specification states it: every successful update leaves a
\* stored updatedAt strictly greater than the one before the update.
C3_StrictlyLater ==
    [][(RequestStep /\ req'.op = "PUT" /\ res'.status = 200) =>
          TextRank(RowOf(store', req'.id).updatedAt.s)
              > TextRank(RowOf(store, req'.id).updatedAt.s)]_vars

\* C3 amended: every successful update stores the clock reading of the
\* update as updatedAt, which is never smaller than the updatedAt stored
\* before (and equal to it when both writes fall in the same millisecond).
C3_NotEarlier ==
    [][(RequestStep /\ req'.op = "PUT" /\ res'.status = 200) =>
          /\ RowOf(store', req'.id).updatedAt = Str(Timeline[now])
          /\ TextRank(RowOf(store', req'.id).updatedAt.s)
                >= TextRank(RowOf(store, req'.id).updatedAt.s)]_vars

\* C3 witness: an update succeeded in the millisecond in which the review
\* was created, so updatedAt did not move.
C3_Witness ==
    /\ req.op = "PUT" /\ res.status = 200
    /\ RowOf(store, req.id).updatedAt = RowOf(store, req.id).createdAt
    /\ RowOf(store, req.id).updatedAt = Str(Timeline[now])

\* C4: every stored review has the id and the createdAt that createReview
\* gave it, whatever creates, updates and deletes were handled.
C4_IdAndCreatedAtKept ==
    \A i \in 1..Len(store) : <<store[i].id.s, store[i].createdAt.s>> \in born

\* C4 witness: a PUT whose body carries createdAt (or id) succeeded at a
\* later millisecond than the creation.
C4_Witness ==
    /\ req.op = "PUT" /\ res.status = 200
    /\ (DOMAIN req.body.o) \cap {"id", "createdAt"} /= {}
    /\ RowOf(store, req.id).updatedAt /= RowOf(store, req.id).createdAt

\* C5: every stored review has an integer rating with 1 <= rating <= 5 and
\* a status among pending, approved, rejected.
C5_StoredRatingAndStatus ==
    \A i \in 1..Len(store) :
        /\ IsInteger(store[i].rating) /\ InRange(store[i].rating)
        /\ store[i].status.t = "string" /\ store[i].status.s \in StatusEnum

\* C6: every stored review has a non-empty title, comment, customerId and
\* customerName.
C6_StoredTextNonEmpty ==
    \A i \in 1..Len(store) :
        \A c \in {"title", "comment", "customerId", "customerName"} :
            store[i][c].t = "string" /\ store[i][c].s /= ""

\* C9: a GET of an id answers 200 with the stored review of that id exactly
\* when the id was created and not yet deleted, and 404 otherwise; a DELETE
\* answers 200 and removes exactly that review in the same case, and
\* answers 404 and removes nothing otherwise.
C9_Lifetime ==
    [][RequestStep =>
          LET alive == BornIds \ gone
              id == req'.id
          IN /\ req'.op = "GET" =>
                  IF id \in alive
                  THEN /\ res'.status = 200
                       /\ res'.data.o.id = Str(id)
                       /\ res'.data.o = RowOf(store, id)
                  ELSE res'.status = 404
             /\ req'.op = "DELETE" =>
                  IF id \in alive
                  THEN /\ res'.status = 200
                       /\ store' = Without(store, RowIndex(store, id))
                       /\ Len(store') = Len(store) - 1
                  ELSE res'.status = 404 /\ store' = store]_vars

\* C9 witness: a GET of a review that was created and then deleted got 404.
C9_Witness ==
    /\ req.op = "GET" /\ res.status = 404
    /\ req.id \in gone

\* C11: every request answered with 400 or 404 leaves the store as it was:
\* a POST or PUT that fails validation, a PUT or DELETE of an unknown id.
C11_FailuresChangeNothing ==
    [][(RequestStep /\ res'.status \in {400, 404}) => store' = store]_vars

\* C11 witness: a PUT naming a stored review was answered 400.
C11_Witness ==
    /\ req.op = "PUT" /\ res.status = 400
    /\ RowIndex(store, req.id) /= {}

----------------------------------------------------------------------------
(* Specification SpecValidate: the two validators applied to a payload.    *)

ValidatorObjects ==
    { Defined([customerId |-> a, customerName |-> b, rating |-> r,
               title |-> c, comment |-> e, status |-> st]) :
        a \in {Undef, Str(""), Str("c1"), Num(7)},
        b \in {Undef, Str("Ann")},
        c \in {Str(""), Str("Slow")},
        e \in {Null, Str("Fine")},
        r \in {Undef, Null, Num(0), Num(1), Frac(7, 2), Num(5), Num(6), Str("5")},
        st \in {Undef, Null, Str(""), Str("pending"), Str("rejected"),
                Str("bogus"), Num(0), Bool(FALSE)} }

Payloads ==
    {NoObj("undefined"), NoObj("null"), NoObj("string")}
        \cup {Obj(o) : o \in ValidatorObjects}

InitValidate ==
    /\ store = <<>>
    /\ uuids = 0
    /\ now = 2
    /\ req \in {Request("input", "", p) : p \in Payloads}
    /\ res = Response(0, NoObj("undefined"))
    /\ numReq = 0
    /\ born = {}
    /\ gone = {}

CallValidateReviewData ==
    /\ req.op = "input"
    /\ req' = [req EXCEPT !.op = "validateReviewData"]
    /\ res' = validateReviewData(req.body)
    /\ UNCHANGED <<store, uuids, now, numReq, born, gone>>

CallValidateUpdateData ==
    /\ req.op = "input"
    /\ req' = [req EXCEPT !.op = "validateUpdateData"]
    /\ res' = validateUpdateData(req.body)
    /\ UNCHANGED <<store, uuids, now, numReq, born, gone>>

NextValidate == CallValidateReviewData \/ CallValidateUpdateData

SpecValidate == InitValidate /\ [][NextValidate]_vars

\* C7: for an object payload validateReviewData answers isValid = true
\* exactly when customerId, customerName, title and comment are non-empty
\* strings, rating is an integer in [1,5] and status is absent or one of
\* pending/approved/rejected; otherwise isValid is false with errors.
C7_ValidExactlyWhen ==
    (req.op = "validateReviewData" /\ req.body.t = "object") =>
        LET o == req.body.o
            NonEmptyString(k) == Get(o, k).t = "string" /\ Get(o, k).s /= ""
            wellFormed ==
                /\ \A k \in {"customerId", "customerName", "title", "comment"} :
                      NonEmptyString(k)
                /\ IsInteger(Get(o, "rating")) /\ InRange(Get(o, "rating"))
                /\ "status" \in DOMAIN o => IncludesStatus(o.status)
        IN /\ ~res.threw
           /\ res.isValid <=> wellFormed
           /\ ~res.isValid => res.errors /= <<>>

\* C8: the validators return a result {isValid, errors} for every payload,
\* a missing or null one included; they never throw.
C8_NeverThrows ==
    req.op \in {"validateReviewData", "validateUpdateData"} =>
        /\ ~res.threw
        /\ res.isValid \in BOOLEAN

----------------------------------------------------------------------------
(* Specification SpecQuery: getReviewsWithFilters on a given table.        *)

QueryRow(i, cust, rating, status, t) ==
    [ id |-> Str(UUIDs[i]), customerId |-> Str(cust),
      customerName |-> Str("Ann"), rating |-> Num(rating),
      title |-> Str("Slow"), comment |-> Str("Fine"), status |-> Str(status),
      createdAt |-> Str(Timeline[t]), updatedAt |-> Str(Timeline[t]) ]

\* tables of n rows inserted one after the other (createdAt never decreases
\* along the rowid order)
QueryTables(n) ==
    {tab \in [1..n -> [cust : {"c1", "c2"}, rating : {1, 5},
                       status : {"pending", "approved"}, t : {2, 3}]] :
        \A a, b \in 1..n : a < b => tab[a].t <= tab[b].t}

TableOf(tab) ==
    [i \in DOMAIN tab |->
        QueryRow(i, tab[i].cust, tab[i].rating, tab[i].status, tab[i].t)]

QueryOptions ==
    { Defined([status |-> st, rating |-> r, customerId |-> c,
               limit |-> l, offset |-> f]) :
        st \in {Undef, Str("approved"), Str("")},
        r \in {Undef, Num(5), Num(0)},
        c \in {Undef, Str("c1")},
        l \in {Undef, Num(0), Num(1)},
        f \in {Undef, Num(0), Num(1)} }

InitQuery ==
    /\ \E n \in 0..MaxRows : \E tab \in QueryTables(n) : store = TableOf(tab)
    /\ uuids = Len(store)
    /\ now = 3
    /\ req \in {Request("input", "", Obj(o)) : o \in QueryOptions}
    /\ res = Response(0, NoObj("undefined"))
    /\ numReq = 0
    /\ born = {<<store[i].id.s, store[i].createdAt.s>> : i \in 1..Len(store)}
    /\ gone = {}

CallGetReviewsWithFilters ==
    /\ req.op = "input"
    /\ req' = [req EXCEPT !.op = "getReviewsWithFilters"]
    /\ res' \in getReviewsWithFilters(req.body.o)
    /\ UNCHANGED <<store, uuids, now, numReq, born, gone>>

NextQuery == CallGetReviewsWithFilters

SpecQuery == InitQuery /\ [][NextQuery]_vars

\* C10: for every table and every options object getReviewsWithFilters
\* returns as total the number of rows that equal every supplied filter, and
\* as reviews the slice [offset, offset + limit) of those rows listed by
\* createdAt descending.
C10_FilteredPage ==
    req.op = "getReviewsWithFilters" =>
        LET o == req.body.o
            supplied == (DOMAIN o) \cap {"status", "rating", "customerId"}
            rows == {i \in 1..Len(store) : \A c \in supplied : store[i][c] = o[c]}
            first == IF "offset" \in DOMAIN o THEN o.offset.n ELSE 0
            count == IF "limit" \in DOMAIN o THEN o.limit.n ELSE Len(store)
        IN /\ ~res.threw
           /\ res.total = Cardinality(rows)
           /\ \E order \in OrderedDesc(store, rows) :
                 res.reviews
                    = Slice([j \in 1..Len(order) |-> store[order[j]]], first, count)

----------------------------------------------------------------------------
(* routes/metrics.js: dates.  A Date holds an instant, here the number of  *)
(* milliseconds since 2023-01-01T00:00:00.000Z.  Calendar lists the date   *)
(* texts of the model with the instant new Date(text) holds: a date-only   *)
(* text and a text ending in Z are both read as UTC.  DayTexts lists the   *)
(* UTC calendar days from the model epoch on.                              *)

MsPerHour == 60 * 60 * 1000
MsPerDay == 24 * MsPerHour

Calendar ==
    << [text |-> "2023-01-01", time |-> 0],
       [text |-> "2023-01-01T10:00:00.000Z", time |-> 10 * MsPerHour],
       [text |-> "2023-01-01T15:00:00.000Z", time |-> 15 * MsPerHour],
       [text |-> "2023-01-02", time |-> MsPerDay],
       [text |-> "2023-01-02T10:00:00.000Z", time |-> MsPerDay + 10 * MsPerHour],
       [text |-> "2023-01-03", time |-> 2 * MsPerDay],
       [text |-> "2023-01-03T23:59:59.999Z", time |-> 3 * MsPerDay - 1],
       [text |-> "2022-12-31T23:59:59.999Z", time |-> -1],
       [text |-> "2023-01-01T00:00:00.000Z", time |-> 0],
       [text |-> "2023-01-01T23:59:59.999Z", time |-> MsPerDay - 1],
       [text |-> "2023-01-02T00:00:00.000Z", time |-> MsPerDay],
       [text |-> "2023-01-02T23:59:59.999Z", time |-> 2 * MsPerDay - 1],
       [text |-> "2023-01-03T00:00:00.000Z", time |-> 2 * MsPerDay],
       [text |-> "2023-01-04T12:00:00.000Z", time |-> 3 * MsPerDay + 12 * MsPerHour] >>

DayTexts == << "2023-01-01", "2023-01-02", "2023-01-03", "2023-01-04" >>

\* new Date(text).getTime()
DateParse(text) ==
    Calendar[CHOOSE i \in 1..Len(Calendar) : Calendar[i].text = text].time

\* new Date(time).toISOString().split('T')[0]
IsoDay(time) == DayTexts[(time \div MsPerDay) + 1]

----------------------------------------------------------------------------
(* routes/metrics.js: calculateDailyMetrics.                               *)

\* a + b for two numbers
NumAdd(a, b) == Frac(a.n * b.d + b.n * a.d, a.d * b.d)

\* a === b for two numbers
NumEq(a, b) == a.n * b.d = b.n * a.d

\* reviews.reduce((sum, r) => sum + r.rating, 0)
RECURSIVE SumRatings(_)
SumRatings(reviews) ==
    IF reviews = <<>> THEN Num(0)
    ELSE NumAdd(SumRatings(SubSeq(reviews, 1, Len(reviews) - 1)),
                reviews[Len(reviews)].rating)

\* Math.round replaced by Math.floor
MathRound_Truncating(n, d) == n \div d

\* Math.round(n / d) for d > 0: the nearest integer, a half rounded up
MathRound(n, d) == (2 * n + d) \div (2 * d)

\* Math.round((sum / length) * 100) / 100
RoundedMean(reviews) ==
    LET sum == SumRatings(reviews)
    IN Frac(MathRound(sum.n * 100, sum.d * Len(reviews)), 100)

\* how many reviews have the status
CountStatus(reviews, status) ==
    Cardinality({i \in 1..Len(reviews) : reviews[i].status = Str(status)})

\* the dayMetrics object of one pass of the loop
DayMetrics(reviews, dateStr) ==
    LET OnDay(review) == IsoDay(DateParse(review.createdAt.s)) = dateStr
        dayReviews == SelectSeq(reviews, OnDay)
        n == Len(dayReviews)
    IN ("date" :> Str(dateStr))
       @@ ("Reviews submitted" :> Num(n))
       @@ ("Reviews approved" :> Num(CountStatus(dayReviews, "approved")))
       @@ ("Reviews pending" :> Num(CountStatus(dayReviews, "pending")))
       @@ ("Reviews rejected" :> Num(CountStatus(dayReviews, "rejected")))
       @@ ("Average rating" :> IF n > 0 THEN RoundedMean(dayReviews) ELSE Num(0))
       @@ ("5-star reviews" :>
              Num(Cardinality({i \in 1..n : NumEq(dayReviews[i].rating, Num(5))})))
       @@ ("Customer interactions" :> Num(n))
       @@ ("Support escalations" :>
              Num(Cardinality({i \in 1..n : ~NumLess(Num(2), dayReviews[i].rating)})))

\* the while loop: currentDate.setDate(currentDate.getDate() + 1) moves the
\* instant by one day (the server's zone has a fixed UTC offset)
RECURSIVE DailyLoop(_, _, _)
DailyLoop(reviews, currentDate, end) ==
    IF currentDate <= end
    THEN <<DayMetrics(reviews, IsoDay(currentDate))>>
            \o DailyLoop(reviews, currentDate + MsPerDay, end)
    ELSE <<>>

calculateDailyMetrics(reviews, startDate, endDate) ==
    DailyLoop(reviews, DateParse(startDate), DateParse(endDate))

----------------------------------------------------------------------------
(* Specification SpecDaily: calculateDailyMetrics on a given review list   *)
(* and date range.                                                         *)

MetricsRow(i, rating, status, createdAt) ==
    [ id |-> Str(UUIDs[i]), customerId |-> Str("c1"),
      customerName |-> Str("Ann"), rating |-> rating,
      title |-> Str("Slow"), comment |-> Str("Fine"), status |-> Str(status),
      createdAt |-> Str(createdAt), updatedAt |-> Str(createdAt) ]

\* the reviews a sample is made of: (rating, status, createdAt)
SampleKinds ==
    { <<Num(5), "approved", "2023-01-01T10:00:00.000Z">>,
      <<Num(2), "pending", "2023-01-01T15:00:00.000Z">>,
      <<Num(5), "rejected", "2023-01-01T15:00:00.000Z">>,
      <<Num(4), "approved", "2023-01-01T10:00:00.000Z">>,
      <<Frac(7, 2), "approved", "2023-01-02T10:00:00.000Z">>,
      <<Num(1), "pending", "2023-01-03T23:59:59.999Z">> }

Samples ==
    UNION { { [i \in 1..n |-> MetricsRow(i, k[i][1], k[i][2], k[i][3])] :
                k \in [1..n -> SampleKinds] } : n \in 0..MaxSample }

RangeTexts ==
    { "2023-01-01", "2023-01-01T15:00:00.000Z", "2023-01-02",
      "2023-01-02T10:00:00.000Z", "2023-01-03" }

InitDaily ==
    /\ store \in Samples
    /\ uuids = Len(store)
    /\ now = 3
    /\ req \in {Request("input", "", Obj([startDate |-> Str(a), endDate |-> Str(b)])) :
                  a \in RangeTexts, b \in RangeTexts}
    /\ res = Response(0, NoObj("undefined"))
    /\ numReq = 0
    /\ born = {}
    /\ gone = {}

CallCalculateDailyMetrics ==
    /\ req.op = "input"
    /\ req' = [req EXCEPT !.op = "calculateDailyMetrics"]
    /\ res' = calculateDailyMetrics(store, req.body.o.startDate.s,
                                    req.body.o.endDate.s)
    /\ UNCHANGED <<store, uuids, now, numReq, born, gone>>

NextDaily == CallCalculateDailyMetrics

SpecDaily == InitDaily /\ [][NextDaily]_vars

\* the calendar days from the day of instant a to the day of instant b
DaysBetween(a, b) ==
    [k \in 1..((b \div MsPerDay) - (a \div MsPerDay) + 1) |->
        DayTexts[(a \div MsPerDay) + k]]

\* C12: for every startDate <= endDate, calculateDailyMetrics returns one
\* bucket for each calendar day from startDate's day to endDate's day, in
\* ascending order, none missing or duplicated; a day without reviews has
\* all counts 0 and average rating 0.
C12_OneBucketPerDay ==
    req.op = "calculateDailyMetrics" =>
        LET start == DateParse(req.body.o.startDate.s)
            end == DateParse(req.body.o.endDate.s)
            days == DaysBetween(start, end)
        IN start <= end =>
              /\ Len(res) = Len(days)
              /\ \A k \in 1..Len(days) :
                    /\ res[k]["date"] = Str(days[k])
                    /\ (\A i \in 1..Len(store) :
                           IsoDay(DateParse(store[i].createdAt.s)) /= days[k])
                       => \A key \in (DOMAIN res[k]) \ {"date"} :
                             res[k][key] = Num(0)

\* the reviews of the list whose creation calendar date is the day
CreatedOn(day) ==
    {i \in 1..Len(store) : IsoDay(DateParse(store[i].createdAt.s)) = day}

\* the value is the mean of the ratings at the indices, rounded to two
\* decimals: a multiple of 1/100 at most 1/200 away from the mean
IsMeanRounded(value, indices) ==
    LET sum == SumRatings([k \in 1..Len(store) |->
                             IF k \in indices THEN store[k]
                             ELSE [store[k] EXCEPT !.rating = Num(0)]])
        c == Cardinality(indices)
        hundredths == (value.n * 100) \div value.d
        diff == 200 * sum.n - 2 * hundredths * sum.d * c
    IN /\ value.t = "number"
       /\ (value.n * 100) % value.d = 0
       /\ diff <= sum.d * c /\ -diff <= sum.d * c

\* C13: in every bucket returned for a day, 'Reviews submitted' is the
\* number of reviews created on that calendar date, the approved, pending
\* and rejected counts are the numbers of those reviews with that status,
\* '5-star reviews' counts those with rating 5, 'Support escalations' those
\* with rating <= 2, and 'Average rating' is their mean rating rounded to
\* two decimals.
C13_BucketContents ==
    req.op = "calculateDailyMetrics" =>
        \A b \in 1..Len(res) :
            LET on == CreatedOn(res[b]["date"].s)
                With(status) == {i \in on : store[i].status.s = status}
            IN /\ res[b]["Reviews submitted"] = Num(Cardinality(on))
               /\ res[b]["Reviews approved"] = Num(Cardinality(With("approved")))
               /\ res[b]["Reviews pending"] = Num(Cardinality(With("pending")))
               /\ res[b]["Reviews rejected"] = Num(Cardinality(With("rejected")))
               /\ res[b]["5-star reviews"]
                     = Num(Cardinality({i \in on : store[i].rating = Num(5)}))
               /\ res[b]["Support escalations"]
                     = Num(Cardinality({i \in on :
                                          store[i].rating.n <= 2 * store[i].rating.d}))
               /\ on /= {} => IsMeanRounded(res[b]["Average rating"], on)

\* C13 witness: the bucket of a day with ratings 5, 5 and 4 has 3 reviews,
\* two of them 5-star, and the average 4.67.
C13_Witness ==
    /\ req.op = "calculateDailyMetrics"
    /\ Len(res) >= 1
    /\ res[1]["Reviews submitted"] = Num(3)
    /\ res[1]["5-star reviews"] = Num(2)
    /\ res[1]["Average rating"] = Frac(467, 100)

----------------------------------------------------------------------------
(* routes/metrics.js: calculatePeriodComparison.                           *)

\* the statistics object of one period
PeriodStats(period) ==
    [ totalReviews |-> Num(Len(period)),
      averageRating |->
          IF Len(period) > 0
          THEN LET sum == SumRatings(period)
               IN Frac(sum.n, sum.d * Len(period))
          ELSE Num(0),
      approvedReviews |-> Num(CountStatus(period, "approved")),
      pendingReviews |-> Num(CountStatus(period, "pending")),
      fiveStarReviews |->
          Num(Cardinality({i \in 1..Len(period) : NumEq(period[i].rating, Num(5))})),
      lowRatingReviews |->
          Num(Cardinality({i \in 1..Len(period) :
                             ~NumLess(Num(2), period[i].rating)})) ]

\* calculateChange without the 100 for a metric that was 0 before
calculateChange_ZeroForNew(curr, prev) ==
    IF prev.n = 0 THEN Num(0)
    ELSE Frac(MathRound((curr.n * prev.d - prev.n * curr.d) * 100 * 100,
                        curr.d * prev.n), 100)

\* calculateChange(curr, prev), for prev >= 0:
\* Math.round(((curr - prev) / prev) * 100 * 100) / 100
calculateChange(curr, prev) ==
    IF prev.n = 0 THEN (IF curr.n > 0 THEN Num(100) ELSE Num(0))
    ELSE Frac(MathRound((curr.n * prev.d - prev.n * curr.d) * 100 * 100,
                        curr.d * prev.n), 100)

calculatePeriodComparison(currentPeriod, previousPeriod) ==
    LET current == PeriodStats(currentPeriod)
        previous == PeriodStats(previousPeriod)
    IN [ current |-> current,
         previous |-> previous,
         changes |-> [m \in DOMAIN current |->
                         calculateChange(current[m], previous[m])] ]

----------------------------------------------------------------------------
(* Specification SpecComparison: calculatePeriodComparison on two review   *)
(* lists.                                                                  *)

\* the reviews a period is made of: (rating, status)
PeriodKinds ==
    { <<Num(5), "approved">>, <<Num(2), "pending">>, <<Frac(7, 2), "rejected">> }

Periods ==
    UNION { { [i \in 1..n |->
                 MetricsRow(i, k[i][1], k[i][2], "2023-01-01T10:00:00.000Z")] :
                k \in [1..n -> PeriodKinds] } : n \in 0..MaxSample }

InitComparison ==
    /\ store = <<>>
    /\ uuids = 0
    /\ now = 3
    /\ req \in {Request("input", "",
                        Obj([currentPeriod |-> c, previousPeriod |-> p])) :
                  c \in Periods, p \in Periods}
    /\ res = Response(0, NoObj("undefined"))
    /\ numReq = 0
    /\ born = {}
    /\ gone = {}

CallCalculatePeriodComparison ==
    /\ req.op = "input"
    /\ req' = [req EXCEPT !.op = "calculatePeriodComparison"]
    /\ res' = calculatePeriodComparison(req.body.o.currentPeriod,
                                        req.body.o.previousPeriod)
    /\ UNCHANGED <<store, uuids, now, numReq, born, gone>>

NextComparison == CallCalculatePeriodComparison

SpecComparison == InitComparison /\ [][NextComparison]_vars

\* the tracked count metrics and the reviews each of them counts
CountMetrics ==
    {"totalReviews", "approvedReviews", "pendingReviews", "fiveStarReviews",
     "lowRatingReviews"}

Counted(period, metric) ==
    Cardinality({i \in 1..Len(period) :
        CASE metric = "totalReviews" -> TRUE
          [] metric = "approvedReviews" -> period[i].status = Str("approved")
          [] metric = "pendingReviews" -> period[i].status = Str("pending")
          [] metric = "fiveStarReviews" -> period[i].rating = Num(5)
          [] metric = "lowRatingReviews" ->
                period[i].rating.n <= 2 * period[i].rating.d})

\* C14: for every tracked count metric the reported change is 100 when the
\* previous value is 0 and the current one is greater, 0 when both are 0,
\* and otherwise (curr - prev) / prev * 100 rounded to two decimals; the
\* function returns a change for every pair of review lists.
C14_PercentageChange ==
    req.op = "calculatePeriodComparison" =>
        /\ CountMetrics \subseteq DOMAIN res.changes
        /\ \A m \in CountMetrics :
              LET curr == Counted(req.body.o.currentPeriod, m)
                  prev == Counted(req.body.o.previousPeriod, m)
                  change == res.changes[m]
                  hundredths == (change.n * 100) \div change.d
                  diff == hundredths * prev - (curr - prev) * 100 * 100
              IN /\ change.t = "number" /\ (change.n * 100) % change.d = 0
                 /\ IF prev = 0
                    THEN change = (IF curr > 0 THEN Num(100) ELSE Num(0))
                    ELSE 2 * diff <= prev /\ -2 * diff <= prev

\* C14 witness: one call reported 100 for a metric that was 0 before, 0 for
\* a metric that is 0 in both periods and a rounded negative change.
C14_Witness ==
    /\ req.op = "calculatePeriodComparison"
    /\ res.previous.approvedReviews = Num(0)
    /\ res.changes.approvedReviews = Num(100)
    /\ res.current.pendingReviews = Num(0)
    /\ res.changes.pendingReviews = Num(0)
    /\ res.changes.totalReviews = Frac(-6667, 100)

----------------------------------------------------------------------------
(* routes/metrics.js: GET /api/metrics/summary.  The server's time zone is *)
(* a fixed offset: local time = UTC + zone.                                *)

\* date.setHours(0, 0, 0, 0)
StartOfDay(time, zone) == ((time + zone) \div MsPerDay) * MsPerDay - zone

\* date.setHours(23, 59, 59, 999)
EndOfDay(time, zone) == StartOfDay(time, zone) + MsPerDay - 1

\* allReviews.filter(review => reviewDate >= from && reviewDate <= to)
ReviewsWithin(allReviews, from, to) ==
    LET Inside(review) ==
            /\ DateParse(review.createdAt.s) >= from
            /\ DateParse(review.createdAt.s) <= to
    IN SelectSeq(allReviews, Inside)

\* the comparison window of previous_period, moved to end where the current
\* window starts
PreviousPeriod_Touching(startDate, endDate) ==
    [from |-> startDate - (endDate - startDate), to |-> startDate]

\* comparisonStartDate and comparisonEndDate of previous_period
PreviousPeriod(startDate, endDate) ==
    LET periodLength == endDate - startDate
        comparisonEndDate == startDate - 1
    IN [from |-> comparisonEndDate - periodLength, to |-> comparisonEndDate]

\* statements.getAllReviews.all(): every listing of the table in which
\* createdAt (a toISOString text, ordered as its instant) never increases
getAllReviews ==
    { [j \in 1..Len(store) |-> store[f[j]]] :
        f \in { g \in [1..Len(store) -> 1..Len(store)] :
                  /\ \A a, b \in 1..Len(store) : a /= b => g[a] /= g[b]
                  /\ \A a, b \in 1..Len(store) :
                        a < b => DateParse(store[g[a]].createdAt.s)
                                    >= DateParse(store[g[b]].createdAt.s) } }

\* reduce((acc, review) => { acc[review[key]] = (acc[review[key]] || 0) + 1 })
Breakdown(reviews, key) ==
    [v \in {reviews[i][key] : i \in 1..Len(reviews)} |->
        Num(Cardinality({i \in 1..Len(reviews) : reviews[i][key] = v}))]

\* the summary object; period holds the instants of the two Dates
Summary(allReviews, query, clock, zone) ==
    LET endDate ==
            EndOfDay(IF Truthy(Get(query, "endDate"))
                     THEN DateParse(query.endDate.s) ELSE clock, zone)
        startDate ==
            StartOfDay(IF Truthy(Get(query, "startDate"))
                       THEN DateParse(query.startDate.s)
                       ELSE clock - 7 * MsPerDay, zone)
        comparison ==
            IF Truthy(Get(query, "comparison"))
            THEN query.comparison.s ELSE "previous_period"
        currentPeriodReviews == ReviewsWithin(allReviews, startDate, endDate)
        window == PreviousPeriod(startDate, endDate)
        \* last_year: the window lies a year back (setFullYear), before the
        \* createdAt of every review of the model; any other value: the
        \* bounds stay undefined and no review compares inside them
        comparisonPeriodReviews ==
            IF comparison = "previous_period"
            THEN ReviewsWithin(allReviews, window.from, window.to)
            ELSE <<>>
        totalReviews == Len(currentPeriodReviews)
        AtLeast(k) == {i \in 1..totalReviews :
                          ~NumLess(currentPeriodReviews[i].rating, Num(k))}
    IN [ period |-> [startDate |-> startDate, endDate |-> endDate],
         metrics |->
            [ totalReviews |-> Num(totalReviews),
              averageRating |->
                  IF totalReviews > 0 THEN RoundedMean(currentPeriodReviews)
                  ELSE Num(0),
              satisfactionScore |->
                  IF totalReviews > 0
                  THEN Frac(MathRound(Cardinality(AtLeast(4)) * 100 * 100,
                                      totalReviews), 100)
                  ELSE Num(0),
              statusBreakdown |-> Breakdown(currentPeriodReviews, "status"),
              ratingBreakdown |-> Breakdown(currentPeriodReviews, "rating"),
              customerSentiment |->
                  [ positive |-> Num(Cardinality(AtLeast(4))),
                    neutral |->
                        Num(Cardinality({i \in 1..totalReviews :
                              NumEq(currentPeriodReviews[i].rating, Num(3))})),
                    negative |->
                        Num(Cardinality({i \in 1..totalReviews :
                              ~NumLess(Num(2), currentPeriodReviews[i].rating)})) ] ],
         hasComparison |-> comparison /= "none",
         comparison |->
            calculatePeriodComparison(currentPeriodReviews,
                                      comparisonPeriodReviews) ]

----------------------------------------------------------------------------
(* Specification SpecSummary: GET /api/metrics/summary on a given table.   *)

\* Date.now() of the summary requests
SummaryClock == DateParse("2023-01-04T12:00:00.000Z")

\* the reviews of a summary table: (rating, status, createdAt)
SummaryKinds ==
    << <<Num(5), "approved", "2022-12-31T23:59:59.999Z">>,
       <<Num(2), "pending", "2023-01-01T00:00:00.000Z">>,
       <<Num(4), "approved", "2023-01-01T23:59:59.999Z">>,
       <<Num(3), "rejected", "2023-01-02T00:00:00.000Z">>,
       <<Num(5), "pending", "2023-01-02T23:59:59.999Z">>,
       <<Num(1), "approved", "2023-01-03T00:00:00.000Z">> >>

\* tables of rows inserted one after the other (createdAt never decreases
\* along the rowid order)
SummaryTables ==
    UNION { { [i \in 1..n |-> MetricsRow(i, SummaryKinds[k[i]][1],
                                         SummaryKinds[k[i]][2],
                                         SummaryKinds[k[i]][3])] :
                k \in { h \in [1..n -> 1..Len(SummaryKinds)] :
                          \A a, b \in 1..n : a < b => h[a] <= h[b] } } :
            n \in 0..MaxSample }

SummaryQueries ==
    { Defined([startDate |-> a, endDate |-> b, comparison |-> c]) :
        a \in {Undef, Str("2023-01-02"), Str("2023-01-02T10:00:00.000Z")},
        b \in {Undef, Str("2023-01-02"), Str("2023-01-03")},
        c \in {Undef, Str("previous_period"), Str("last_year"), Str("none")} }

\* UTC and New York without daylight saving
ZoneOffsets == {0, -5 * MsPerHour}

InitSummary ==
    /\ store \in SummaryTables
    /\ uuids = Len(store)
    /\ now = 3
    /\ req \in { [op |-> "input", id |-> "", body |-> Obj(q), zone |-> z] :
                   q \in SummaryQueries, z \in ZoneOffsets }
    /\ res = Response(0, NoObj("undefined"))
    /\ numReq = 0
    /\ born = {}
    /\ gone = {}

\* router.get('/summary')
GetSummary ==
    /\ req.op = "input"
    /\ req' = [req EXCEPT !.op = "GET /summary"]
    /\ \E allReviews \in getAllReviews :
          res' = Response(200, Summary(allReviews, req.body.o, SummaryClock, req.zone))
    /\ UNCHANGED <<store, uuids, now, numReq, born, gone>>

NextSummary == GetSummary

SpecSummary == InitSummary /\ [][NextSummary]_vars

\* the rows of the table created in the window [from, to]
CreatedWithin(from, to) ==
    {i \in 1..Len(store) :
        /\ DateParse(store[i].createdAt.s) >= from
        /\ DateParse(store[i].createdAt.s) <= to}

----------------------------------------------------------------------------
(* routes/usage.js: transformReviewsForDetailsTable.                       *)

\* the outcomes of Math.floor(Math.random() * 4) and of
\* (Math.random() * 50 + 10).toFixed(2): every region, two of the costs
Regions == {"US-East", "US-West", "EU-Central", "Asia-Pacific"}
Costs == {"$10.00", "$59.99"}

\* (review) => ({ ... }) with the two random members given
DetailRecord(review, costs, region) ==
    [ id |-> review.id,
      owner |-> review.customerName,
      customerId |-> review.customerId,
      status |-> review.status,
      rating |-> review.rating,
      title |-> review.title,
      comment |-> review.comment,
      costs |-> Str(costs),
      region |-> Str(region),
      stability |->
          IF ~NumLess(review.rating, Num(4)) THEN Str("Stable")
          ELSE IF ~NumLess(review.rating, Num(3)) THEN Str("Warning")
          ELSE Str("Critical"),
      lastEdited |-> review.updatedAt,
      createdAt |-> review.createdAt,
      sentiment |->
          IF ~NumLess(review.rating, Num(4)) THEN Str("Positive")
          ELSE IF NumEq(review.rating, Num(3)) THEN Str("Neutral")
          ELSE Str("Negative"),
      priority |->
          IF ~NumLess(Num(2), review.rating) THEN Str("High")
          ELSE IF NumEq(review.rating, Num(3)) THEN Str("Medium")
          ELSE Str("Low") ]

\* the arrays reviews.map(...) can return
transformReviewsForDetailsTable(reviews) ==
    { [i \in 1..Len(reviews) |-> DetailRecord(reviews[i], rnd[i][1], rnd[i][2])] :
        rnd \in [1..Len(reviews) -> Costs \X Regions] }

----------------------------------------------------------------------------
(* routes/usage.js: GET /api/usage/details.  Query parameters are strings. *)

\* parseInt(v) of a non-negative number or of a decimal text of the model
IntTexts == << "0", "1", "2", "3", "4", "5" >>

ParseInt(v) ==
    IF v.t = "number" THEN v.n \div v.d
    ELSE (CHOOSE i \in 1..Len(IntTexts) : IntTexts[i] = v.s) - 1

\* parseFloat(costs.replace('$', '')), in cents
CostValue(costs) == IF costs = "$10.00" THEN 10 * 100 ELSE 59 * 100 + 99

\* text.toLowerCase() for the texts of the model
LowerCase ==
    [x \in {"Ann", "Bob", "Slow", "Fine", "c1", "c2", "AN", "bob"} |->
        CASE x = "Ann" -> "ann" [] x = "Bob" -> "bob" [] x = "Slow" -> "slow"
          [] x = "Fine" -> "fine" [] x = "AN" -> "an" [] OTHER -> x]

\* hay.includes(needle) for the lower-case texts of the model
Includes(hay, needle) ==
    \/ hay = needle
    \/ hay = "ann" /\ needle = "an"

\* the value the comparator compares for a record: a Date for createdAt and
\* lastEdited, parseInt for rating, parseFloat for costs; a member no record
\* has is undefined on both sides and compares equal.  (Other members
\* compare as lower-case text; the requests of the model do not sort by
\* them.)
SortKey(record, sortBy) ==
    CASE sortBy \in {"createdAt", "lastEdited"} -> TextRank(record[sortBy].s)
      [] sortBy = "rating" -> ParseInt(record.rating)
      [] sortBy = "costs" -> CostValue(record.costs.s)
      [] OTHER -> 0

\* records.sort(comparator) that leaves the array as it is
SortRecords_Unsorted(records, sortBy, sortOrder) == records

\* records.sort(comparator): Array.prototype.sort is stable, records the
\* comparator calls equal keep their order
SortRecords(records, sortBy, sortOrder) ==
    LET n == Len(records)
        key == [i \in 1..n |-> SortKey(records[i], sortBy)]
        First(a, b) == IF sortOrder = "asc" THEN key[a] < key[b]
                       ELSE key[a] > key[b]
        Before(i) == {j \in 1..n : First(j, i) \/ (key[j] = key[i] /\ j < i)}
    IN [p \in 1..n |->
          records[CHOOSE i \in 1..n : Cardinality(Before(i)) = p - 1]]

\* slice(parseInt(offset), parseInt(offset) + parseInt(limit)) that ignores
\* the offset
Paginate_FromStart(records, offset, limit) == Slice(records, 0, limit)

\* slice(parseInt(offset), parseInt(offset) + parseInt(limit)) for
\* non-negative integers
Paginate(records, offset, limit) == Slice(records, offset, limit)

\* the filters applied after the transformation: owner, region, stability,
\* sentiment, priority, search
ApplyFilters(records, query) ==
    LET Passes(record) ==
            /\ Truthy(Get(query, "owner")) =>
                  Includes(LowerCase[record.owner.s], LowerCase[query.owner.s])
            /\ \A k \in {"region", "stability", "sentiment", "priority"} :
                  Truthy(Get(query, k)) => record[k] = query[k]
            /\ Truthy(Get(query, "search")) =>
                  \E k \in {"title", "comment", "owner", "customerId"} :
                      Includes(LowerCase[record[k].s], LowerCase[query.search.s])
    IN SelectSeq(records, Passes)

\* the baseFilters object after its undefined members are deleted
BaseFilters(query) ==
    Defined([ status |-> Get(query, "status"),
              rating |-> IF Truthy(Get(query, "rating"))
                         THEN Num(ParseInt(query.rating)) ELSE Undef,
              customerId |-> Get(query, "customerId") ])

\* the data member of the response for one outcome of the query and of the
\* random members
DetailsData(transformed, query) ==
    LET limit == IF "limit" \in DOMAIN query THEN ParseInt(query.limit) ELSE 50
        offset == IF "offset" \in DOMAIN query THEN ParseInt(query.offset) ELSE 0
        sortBy == IF "sortBy" \in DOMAIN query THEN query.sortBy.s ELSE "createdAt"
        sortOrder == IF "sortOrder" \in DOMAIN query THEN query.sortOrder.s ELSE "desc"
        transformedRecords ==
            SortRecords(ApplyFilters(transformed, query), sortBy, sortOrder)
        totalRecords == Len(transformedRecords)
    IN [ records |-> Paginate(transformedRecords, offset, limit),
         pagination |->
            [ total |-> totalRecords, limit |-> limit, offset |-> offset,
              hasMore |-> offset + limit < totalRecords ],
         statistics |->
            [ total |-> totalRecords,
              statusBreakdown |-> Breakdown(transformedRecords, "status"),
              sentimentBreakdown |-> Breakdown(transformedRecords, "sentiment"),
              stabilityBreakdown |-> Breakdown(transformedRecords, "stability"),
              regionBreakdown |-> Breakdown(transformedRecords, "region"),
              averageRating |->
                  IF totalRecords > 0 THEN RoundedMean(transformedRecords)
                  ELSE Num(0) ],
         filters |-> query ]

\* the responses router.get('/details') can give to a query
UsageDetails(query) ==
    UNION { IF result.threw THEN {InternalError}
            ELSE { Response(200, DetailsData(transformed, query)) :
                     transformed \in transformReviewsForDetailsTable(result.reviews) } :
            result \in getReviewsWithFilters(BaseFilters(query)) }

----------------------------------------------------------------------------
(* Specification SpecUsage: GET /api/usage/details on a given table.       *)

\* the reviews of a usage table: (customerId, customerName, rating, status)
UsageKinds ==
    { <<"c1", "Ann", Num(5), "approved">>,
      <<"c2", "Bob", Frac(7, 2), "pending">>,
      <<"c2", "Bob", Num(2), "rejected">> }

\* tables of rows inserted one millisecond after the other
UsageTables ==
    UNION { { [i \in 1..n |->
                 [ id |-> Str(UUIDs[i]), customerId |-> Str(k[i][1]),
                   customerName |-> Str(k[i][2]), rating |-> k[i][3],
                   title |-> Str("Slow"), comment |-> Str("Fine"),
                   status |-> Str(k[i][4]),
                   createdAt |-> Str(Timeline[i + 1]),
                   updatedAt |-> Str(Timeline[i + 1]) ]] :
                k \in [1..n -> UsageKinds] } : n \in 0..MaxRows }

UsageQueries ==
    { EmptyObj,
      [status |-> Str("approved")], [rating |-> Str("5")], [rating |-> Str("0")],
      [owner |-> Str("AN")], [region |-> Str("US-East")],
      [sentiment |-> Str("Positive")], [search |-> Str("bob")],
      [priority |-> Str("High"), region |-> Str("US-West")],
      [limit |-> Str("1")], [limit |-> Str("1"), offset |-> Str("1")],
      [offset |-> Str("5")],
      [sentiment |-> Str("Positive"), limit |-> Str("1")],
      [sortBy |-> Str("rating")],
      [sortBy |-> Str("rating"), sortOrder |-> Str("asc")],
      [sortBy |-> Str("rating"), sortOrder |-> Str("desc")],
      [sortOrder |-> Str("asc")], [sortBy |-> Str("costs")] }

InitUsage ==
    /\ store \in UsageTables
    /\ uuids = Len(store)
    /\ now = Len(store) + 1
    /\ req \in {Request("input", "", Obj(q)) : q \in UsageQueries}
    /\ res = Response(0, NoObj("undefined"))
    /\ numReq = 0
    /\ born = {<<store[i].id.s, store[i].createdAt.s>> : i \in 1..Len(store)}
    /\ gone = {}

\* router.get('/details')
GetUsageDetails ==
    /\ req.op = "input"
    /\ req' = [req EXCEPT !.op = "GET /details"]
    /\ res' \in UsageDetails(req.body.o)
    /\ UNCHANGED <<store, uuids, now, numReq, born, gone>>

NextUsage == GetUsageDetails

SpecUsage == InitUsage /\ [][NextUsage]_vars

\* C16: every record of a response has the stability, sentiment and
\* priority of one row of the classification table (rating 4-5: Stable,
\* Positive, Low; rating 3: Warning, Neutral, Medium; rating 1-2: Critical,
\* Negative, High), and owner = customerName, lastEdited = updatedAt of the
\* review it was made from.
C16_OneClassificationRow ==
    (req.op = "GET /details" /\ res.status = 200) =>
        \A p \in 1..Len(res.data.records) :
            LET record == res.data.records[p]
                review == RowOf(store, record.id.s)
                class == <<record.stability.s, record.sentiment.s, record.priority.s>>
            IN /\ class \in { <<"Stable", "Positive", "Low">>,
                              <<"Warning", "Neutral", "Medium">>,
                              <<"Critical", "Negative", "High">> }
               /\ record.owner = review.customerName
               /\ record.lastEdited = review.updatedAt

\* the record satisfies every filter the query supplies
Satisfies(record, query) ==
    /\ \A k \in (DOMAIN query) \cap {"status", "customerId", "region",
                                   "stability", "sentiment", "priority"} :
          record[k] = query[k]
    /\ "rating" \in DOMAIN query =>
          record.rating = Num(ParseInt(query.rating))
    /\ "sentiment" \in DOMAIN query /\ query.sentiment = Str("Positive") =>
          ~NumLess(record.rating, Num(4))
    /\ "owner" \in DOMAIN query =>
          Includes(LowerCase[record.owner.s], LowerCase[query.owner.s])
    /\ "search" \in DOMAIN query =>
          \E k \in {"title", "comment", "owner", "customerId"} :
              Includes(LowerCase[record[k].s], LowerCase[query.search.s])

\* the stored reviews that satisfy every supplied filter, region aside
\* (the region of a record is drawn anew for every response)
PassingRows(query) ==
    LET rest == [k \in (DOMAIN query) \ {"region"} |-> query[k]]
    IN {i \in 1..Len(store) :
          Satisfies(DetailRecord(store[i], "$10.00", "US-East"), rest)}

\* C17: every returned record satisfies every supplied filter, and
\* statistics.total and pagination.total are the number of records that
\* pass the filters before limit and offset are applied, the statistics
\* being those of that whole set.
C17_FiltersAndTotals ==
    (req.op = "GET /details" /\ res.status = 200) =>
        LET query == req.body.o
            data == res.data
            passing == PassingRows(query)
            Sum(breakdown) ==
                LET keys == DOMAIN breakdown
                IN Cardinality({<<k, c>> \in keys \X (1..Len(store)) :
                                   c <= breakdown[k].n})
        IN /\ \A p \in 1..Len(data.records) : Satisfies(data.records[p], query)
           /\ data.statistics.total = data.pagination.total
           /\ data.pagination.total <= Cardinality(passing)
           /\ "region" \notin DOMAIN query =>
                 /\ data.pagination.total = Cardinality(passing)
                 /\ data.statistics.statusBreakdown
                       = [s \in {store[i].status : i \in passing} |->
                            Num(Cardinality({i \in passing : store[i].status = s}))]
                 /\ passing /= {} =>
                       IsMeanRounded(data.statistics.averageRating, passing)
           /\ Len(data.records) <= data.pagination.total
           /\ Sum(data.statistics.statusBreakdown) = data.pagination.total
           /\ Sum(data.statistics.regionBreakdown) = data.pagination.total

\* C18 as the specification states it: for all values of limit and offset
\* the response satisfies offset + (number of returned records) <= total.
C18_OffsetPlusReturned ==
    (req.op = "GET /details" /\ res.status = 200) =>
        res.data.pagination.offset + Len(res.data.records)
            <= res.data.pagination.total

\* C18 amended: the response returns min(limit, total - offset) records
\* when offset <= total and none when offset > total, so that offset +
\* (number of returned records) <= total holds exactly for offset <= total.
C18_PageSize ==
    (req.op = "GET /details" /\ res.status = 200) =>
        LET page == res.data.pagination
            returned == Len(res.data.records)
        IN /\ page.offset <= page.total =>
                 /\ returned = (IF page.limit < page.total - page.offset
                                THEN page.limit ELSE page.total - page.offset)
                 /\ page.offset + returned <= page.total
           /\ page.offset > page.total => returned = 0
           /\ page.hasMore = (page.offset + page.limit < page.total)

\* C18 witness: a request with an offset beyond the last record of a table
\* that is not empty was answered 200 with no record.
C18_Witness ==
    /\ req.op = "GET /details" /\ res.status = 200
    /\ res.data.pagination.total > 0
    /\ res.data.pagination.offset > res.data.pagination.total
    /\ res.data.records = <<>>

\* a request that sorts all records by rating, descending, and neither
\* filters nor pages them
SortsByRatingDesc ==
    /\ req.op = "GET /details" /\ res.status = 200
    /\ DOMAIN req.body.o \subseteq {"sortBy", "sortOrder"}
    /\ Get(req.body.o, "sortBy") = Str("rating")
    /\ Get(req.body.o, "sortOrder") \in {Undef, Str("desc")}

\* the position of the record with the id in a list of records
PositionOf(records, id) == CHOOSE p \in 1..Len(records) : records[p].id = id

\* the responses to the same request with sortOrder=asc, the random
\* members of every record drawn as in the response at hand
AscendingResponses ==
    { Response(200,
        DetailsData([j \in 1..Len(result.reviews) |->
                        LET drawn == res.data.records[
                                PositionOf(res.data.records, result.reviews[j].id)]
                        IN DetailRecord(result.reviews[j], drawn.costs.s,
                                        drawn.region.s)],
                    Spread(req.body.o, [sortOrder |-> Str("asc")]))) :
        result \in getReviewsWithFilters(BaseFilters(req.body.o)) }

----------------------------------------------------------------------------
(* routes/export.js: parseAcceptHeader.  An Accept header is the list of   *)
(* its comma-separated candidates (the empty list is the empty text); a    *)
(* candidate is the text pad + media + params, for instance                *)
(* " text/csv;q=0.9".                                                      *)

MediaTypes ==
    {"text/csv", "application/csv", "application/xml", "text/xml",
     "application/json", "text/html", "*/*", "TEXT/CSV"}

\* media.toLowerCase() for the media types of the model
LowerMedia(media) ==
    IF media = "TEXT/CSV" THEN "text/csv" ELSE media

Candidate(pad, media, params) == [pad |-> pad, media |-> media, params |-> params]

\* acceptHeader.toLowerCase().split(',').map(type => type.trim())
SplitTrimmed(candidates) ==
    [i \in 1..Len(candidates) |->
        Candidate("", LowerMedia(candidates[i].media), candidates[i].params)]

\* type.includes(needle): no media type of the model contains another, and
\* no padding or parameter contains a media type
TypeIncludes(type, needle) == type.media = needle

\* parseAcceptHeader that looks for XML before CSV
parseAcceptHeader_XmlFirst(acceptHeader) ==
    IF acceptHeader.t = "undefined" \/ acceptHeader.list = <<>> THEN "json"
    ELSE LET accepts == SplitTrimmed(acceptHeader.list)
             Some(needles) == \E i \in 1..Len(accepts) :
                                 \E n \in needles : TypeIncludes(accepts[i], n)
         IN IF Some({"application/xml", "text/xml"}) THEN "xml"
            ELSE IF Some({"text/csv", "application/csv"}) THEN "csv"
            ELSE "json"

parseAcceptHeader(acceptHeader) ==
    IF acceptHeader.t = "undefined" \/ acceptHeader.list = <<>> THEN "json"
    ELSE LET accepts == SplitTrimmed(acceptHeader.list)
             Some(needles) == \E i \in 1..Len(accepts) :
                                 \E n \in needles : TypeIncludes(accepts[i], n)
         IN IF Some({"text/csv", "application/csv"}) THEN "csv"
            ELSE IF Some({"application/xml", "text/xml"}) THEN "xml"
            ELSE IF Some({"application/json"}) THEN "json"
            ELSE "json"

----------------------------------------------------------------------------
(* Specification SpecAccept: parseAcceptHeader on a given header.          *)

Header(list) == [t |-> "string", list |-> list]
NoHeader == [t |-> "undefined", list |-> <<>>]

\* every media type with and without a q weight, and two candidates that
\* follow a comma and a blank
Candidates ==
    { Candidate("", media, params) :
        media \in MediaTypes, params \in {"", ";q=0.9"} }
    \cup {Candidate(" ", "text/csv", ""), Candidate(" ", "text/xml", ";q=0.9")}

\* the headers of the model
AcceptHeaders ==
    {NoHeader} \cup
    UNION { { Header(list) : list \in [1..n -> Candidates] } :
            n \in 0..MaxCandidates }

InitAccept ==
    /\ store = <<>>
    /\ uuids = 0
    /\ now = 3
    /\ req \in {Request("input", "", h) : h \in AcceptHeaders}
    /\ res = Response(0, NoObj("undefined"))
    /\ numReq = 0
    /\ born = {}
    /\ gone = {}

CallParseAcceptHeader ==
    /\ req.op = "input"
    /\ req' = [req EXCEPT !.op = "parseAcceptHeader"]
    /\ res' = parseAcceptHeader(req.body)
    /\ UNCHANGED <<store, uuids, now, numReq, born, gone>>

NextAccept == CallParseAcceptHeader

SpecAccept == InitAccept /\ [][NextAccept]_vars

\* the media types a header names, in lower case, whatever their order,
\* padding and q weights
NamedTypes(header) ==
    {LowerMedia(header.list[i].media) : i \in 1..Len(header.list)}

\* C20: parseAcceptHeader returns csv when some candidate names text/csv or
\* application/csv, else xml when some candidate names application/xml or
\* text/xml, else json (also for a missing or empty header); the result is
\* that of the header read backwards and of the header without its q
\* weights.
C20_FormatByPriority ==
    req.op = "parseAcceptHeader" =>
        LET named == NamedTypes(req.body)
            list == req.body.list
            backwards == [i \in 1..Len(list) |-> list[Len(list) + 1 - i]]
            unweighted == [i \in 1..Len(list) |-> [list[i] EXCEPT !.params = ""]]
        IN /\ res = (IF named \cap {"text/csv", "application/csv"} /= {} THEN "csv"
                     ELSE IF named \cap {"application/xml", "text/xml"} /= {} THEN "xml"
                     ELSE "json")
           /\ req.body.t /= "undefined" =>
                 /\ res = parseAcceptHeader(Header(backwards))
                 /\ res = parseAcceptHeader(Header(unweighted))

\* C20 witness: a header that names XML first and CSV after it with a
\* lower weight gave csv.
C20_Witness ==
    /\ req.op = "parseAcceptHeader"
    /\ Len(req.body.list) >= 2
    /\ req.body.list[1].media = "application/xml"
    /\ req.body.list[1].params = ""
    /\ req.body.list[2].media = "text/csv"
    /\ req.body.list[2].params = ";q=0.9"
    /\ res = "csv"

\* ---------------------------------------------------------------------
\* CSV export (routes/export.js).  A text is a sequence of symbols: the
\* three characters CSV treats specially, and symbols that stand for one
\* ordinary character or a run of them ("uuid-1", "approved").
\* ---------------------------------------------------------------------

MaxText == 2

Quote == "\""

Comma == ","

Newline == "\n"

\* str.replace(/"/g, '""')
RECURSIVE DoubleQuotes(_)
DoubleQuotes(text) ==
    IF text = <<>> THEN <<>>
    ELSE (IF Head(text) = Quote THEN <<Quote, Quote>> ELSE <<Head(text)>>)
         \o DoubleQuotes(Tail(text))

\* `"${text}"`
Quoted(text) == <<Quote>> \o text \o <<Quote>>

\* Array.prototype.join
RECURSIVE Join(_, _)
Join(parts, separator) ==
    IF parts = <<>> THEN <<>>
    ELSE IF Len(parts) = 1 THEN parts[1]
    ELSE parts[1] \o separator \o Join(Tail(parts), separator)

CsvHeaders ==
    << <<"id">>, <<"customerId">>, <<"customerName">>, <<"rating">>,
       <<"title">>, <<"comment">>, <<"status">>, <<"createdAt">>,
       <<"updatedAt">> >>

\* the row convertToCSV builds for one review: title and comment with their
\* quotes doubled, the other texts between quotes as they are, the rating
\* bare
CsvRow(review) ==
    << Quoted(review.id),
       Quoted(review.customerId),
       Quoted(review.customerName),
       review.rating,
       Quoted(DoubleQuotes(review.title)),
       Quoted(DoubleQuotes(review.comment)),
       Quoted(review.status),
       Quoted(review.createdAt),
       Quoted(review.updatedAt) >>

convertToCSV(reviews) ==
    IF Len(reviews) = 0
    THEN Join(CsvHeaders, <<Comma>>) \o <<Newline>>
    ELSE Join(<<Join(CsvHeaders, <<Comma>>)>> \o
              [i \in 1..Len(reviews) |-> Join(CsvRow(reviews[i]), <<Comma>>)],
              <<Newline>>)

\* texts of at most MaxText symbols over a letter, the quote and the comma
Texts == UNION { [1..n -> {"a", Quote, Comma}] : n \in 0..MaxText }

CsvReview(customerId, customerName, title, comment) ==
    [id |-> <<"uuid-1">>, customerId |-> customerId,
     customerName |-> customerName, rating |-> <<"5">>, title |-> title,
     comment |-> comment, status |-> <<"approved">>,
     createdAt |-> <<Timeline[1]>>, updatedAt |-> <<Timeline[2]>>]

PlainReview ==
    [id |-> <<"uuid-2">>, customerId |-> <<"cust-2">>,
     customerName |-> <<"Ann">>, rating |-> <<"3.5">>, title |-> <<"Fine">>,
     comment |-> <<"ok">>, status |-> <<"pending">>,
     createdAt |-> <<Timeline[1]>>, updatedAt |-> <<Timeline[1]>>]

CsvReviews ==
    {CsvReview(customerId, customerName, title, comment) :
        customerId \in {<<"cust-1">>, <<"c", Quote>>},
        customerName \in Texts,
        title \in Texts,
        comment \in {<<"ok">>, <<"say", Quote, "hi", Quote, Comma, "bye">>}}

CsvLists ==
    {<<>>} \cup {<<r>> : r \in CsvReviews}
           \cup {<<r, PlainReview>> : r \in CsvReviews}

InitCsv ==
    /\ store \in CsvLists
    /\ uuids = 0
    /\ now = 3
    /\ req = Request("input", "", NoObj("undefined"))
    /\ res = Response(0, NoObj("undefined"))
    /\ numReq = 0
    /\ born = {}
    /\ gone = {}

CallConvertToCSV ==
    /\ req.op = "input"
    /\ req' = [req EXCEPT !.op = "convertToCSV"]
    /\ res' = convertToCSV(store)
    /\ UNCHANGED <<store, uuids, now, numReq, born, gone>>

NextCsv == CallConvertToCSV

SpecCsv == InitCsv /\ [][NextCsv]_vars

\* A standard CSV reader: fields separated by commas, records by newlines;
\* a field that starts with a quote runs to its closing quote, and two
\* quotes inside it stand for one.  Anything else after a closing quote,
\* a quote inside a bare field and a missing closing quote are malformed.
RECURSIVE CsvRecord(_, _, _, _, _)
CsvRecord(text, i, state, field, record) ==
    IF i > Len(text)
    THEN [ok |-> state /= "quoted", record |-> Append(record, field), next |-> i]
    ELSE LET c == text[i]
         IN IF state = "quoted"
            THEN IF c = Quote
                 THEN CsvRecord(text, i + 1, "closed", field, record)
                 ELSE CsvRecord(text, i + 1, "quoted", Append(field, c), record)
            ELSE IF c = Comma
                 THEN CsvRecord(text, i + 1, "start", <<>>, Append(record, field))
            ELSE IF c = Newline
                 THEN [ok |-> TRUE, record |-> Append(record, field), next |-> i + 1]
            ELSE IF c = Quote
                 THEN IF state = "start"
                      THEN CsvRecord(text, i + 1, "quoted", <<>>, record)
                      ELSE IF state = "closed"
                      THEN CsvRecord(text, i + 1, "quoted", Append(field, Quote), record)
                      ELSE [ok |-> FALSE, record |-> <<>>, next |-> i]
            ELSE IF state = "closed"
                 THEN [ok |-> FALSE, record |-> <<>>, next |-> i]
            ELSE CsvRecord(text, i + 1, "bare", Append(field, c), record)

RECURSIVE CsvRecords(_, _, _)
CsvRecords(text, i, records) ==
    IF i > Len(text) THEN [ok |-> TRUE, records |-> records]
    ELSE LET read == CsvRecord(text, i, "start", <<>>, <<>>)
         IN IF read.ok
            THEN CsvRecords(text, read.next, Append(records, read.record))
            ELSE [ok |-> FALSE, records |-> <<>>]

ParseCsv(text) == CsvRecords(text, 1, <<>>)

\* the nine values of a review in the order of the columns
CsvValues(review) ==
    << review.id, review.customerId, review.customerName, review.rating,
       review.title, review.comment, review.status, review.createdAt,
       review.updatedAt >>

\* C21: reading the output of convertToCSV with a standard CSV reader
\* gives the header and then, row by row, the nine values of each review,
\* also when customerId, customerName, title or comment contain a quote or
\* a comma.
C21_CsvRoundTrip ==
    req.op = "convertToCSV" =>
        LET parsed == ParseCsv(res)
        IN /\ parsed.ok
           /\ parsed.records =
                 <<CsvHeaders>> \o [i \in 1..Len(store) |-> CsvValues(store[i])]

\* ---------------------------------------------------------------------
\* XML escaping (routes/export.js).  Here a text is a sequence of single
\* characters.
\* ---------------------------------------------------------------------

MaxParts == 2

Text(chars) == [t |-> "string", chars |-> chars]

\* str.replace(/c/g, by)
RECURSIVE ReplaceAll(_, _, _)
ReplaceAll(chars, c, by) ==
    IF chars = <<>> THEN <<>>
    ELSE (IF Head(chars) = c THEN by ELSE <<Head(chars)>>)
         \o ReplaceAll(Tail(chars), c, by)

AmpEntity == <<"&", "a", "m", "p", ";">>

LtEntity == <<"&", "l", "t", ";">>

GtEntity == <<"&", "g", "t", ";">>

QuotEntity == <<"&", "q", "u", "o", "t", ";">>

AposEntity == <<"&", "#", "3", "9", ";">>

escapeXML_AmpersandLast(str) ==
    IF str.t /= "string" THEN str
    ELSE Text(ReplaceAll(ReplaceAll(ReplaceAll(ReplaceAll(ReplaceAll(
                str.chars, "<", LtEntity), ">", GtEntity), Quote, QuotEntity),
                "'", AposEntity), "&", AmpEntity))

escapeXML(str) ==
    IF str.t /= "string" THEN str
    ELSE Text(ReplaceAll(ReplaceAll(ReplaceAll(ReplaceAll(ReplaceAll(
                str.chars, "&", AmpEntity), "<", LtEntity), ">", GtEntity),
                Quote, QuotEntity), "'", AposEntity))

\* pieces of input: the five special characters, ordinary characters, and
\* texts that already look like an entity
XmlParts ==
    { <<"&">>, <<"<">>, <<">">>, <<Quote>>, <<"'">>, <<"a">>, <<";">>,
      AmpEntity, LtEntity, AposEntity }

XmlInputs ==
    { Text(Join(parts, <<>>)) :
        parts \in UNION { [1..n -> XmlParts] : n \in 0..MaxParts } }
    \cup {Num(5), NoObj("undefined")}

InitXml ==
    /\ store = <<>>
    /\ uuids = 0
    /\ now = 3
    /\ req \in {Request("input", "", str) : str \in XmlInputs}
    /\ res = Response(0, NoObj("undefined"))
    /\ numReq = 0
    /\ born = {}
    /\ gone = {}

CallEscapeXML ==
    /\ req.op = "input"
    /\ req' = [req EXCEPT !.op = "escapeXML"]
    /\ res' = escapeXML(req.body)
    /\ UNCHANGED <<store, uuids, now, numReq, born, gone>>

NextXml == CallEscapeXML

SpecXml == InitXml /\ [][NextXml]_vars

\* the entity of a special character, the character itself otherwise
EntityOf(c) ==
    IF c = "&" THEN AmpEntity
    ELSE IF c = "<" THEN LtEntity
    ELSE IF c = ">" THEN GtEntity
    ELSE IF c = Quote THEN QuotEntity
    ELSE IF c = "'" THEN AposEntity
    ELSE <<c>>

SpecialChars == {"&", "<", ">", Quote, "'"}

\* chars carries the text part from position i on
StartsAt(chars, i, part) ==
    /\ i + Len(part) - 1 <= Len(chars)
    /\ \A k \in 1..Len(part) : chars[i + k - 1] = part[k]

\* the special characters whose entity starts at position i (at most one)
EntitiesAt(chars, i) == {c \in SpecialChars : StartsAt(chars, i, EntityOf(c))}

\* reading a text with every entity replaced by its character
RECURSIVE UnescapeFrom(_, _)
UnescapeFrom(chars, i) ==
    IF i > Len(chars) THEN <<>>
    ELSE IF EntitiesAt(chars, i) /= {}
         THEN LET c == CHOOSE x \in EntitiesAt(chars, i) : TRUE
              IN <<c>> \o UnescapeFrom(chars, i + Len(EntityOf(c)))
         ELSE <<chars[i]>> \o UnescapeFrom(chars, i + 1)

Unescape(chars) == UnescapeFrom(chars, 1)

\* C22: for a string, escapeXML writes each of & < > " ' as its entity and
\* every other character as it is, once: the output has none of < > " ',
\* every & in it starts one of the five entities, and unescaping the output
\* gives the input back.
C22_EscapesOnce ==
    (req.op = "escapeXML" /\ req.body.t = "string") =>
        LET input == req.body.chars
            output == res.chars
        IN /\ res.t = "string"
           /\ output = Join([i \in 1..Len(input) |-> EntityOf(input[i])], <<>>)
           /\ \A i \in 1..Len(output) :
                 /\ output[i] \notin {"<", ">", Quote, "'"}
                 /\ output[i] = "&" => EntitiesAt(output, i) /= {}
           /\ Unescape(output) = input

\* C22 witness: a text with a quote and a text that already reads &amp;
\* was escaped, the ampersand of &amp; once more and nothing else of it.
C22_Witness ==
    /\ req.op = "escapeXML"
    /\ req.body = Text(<<Quote>> \o AmpEntity)
    /\ res = Text(QuotEntity \o AmpEntity \o <<"a", "m", "p", ";">>)

\* ---------------------------------------------------------------------
\* Storage failures: a statement of the driver throws (the file is locked,
\* the disk fails, the table is gone), the service function that ran it
\* throws its own error, and the catch of the handler answers 500.
\* ---------------------------------------------------------------------

\* the message of the error a service function throws from its catch
ServiceError(service) ==
    CASE service = "getAllReviews" -> "Failed to retrieve reviews"
      [] service = "getReviewById" -> "Failed to retrieve review"
      [] service = "saveReview" -> "Failed to save review"
      [] service = "updateReviewById" -> "Failed to update review"
      [] service = "deleteReviewById" -> "Failed to delete review"
      [] service = "getReviewsWithFilters" -> "Failed to retrieve filtered reviews"
      [] service = "generateMetrics" -> "Failed to generate dashboard metrics"

\* the routes, each with the service functions its handler calls
Route(op, services) == [op |-> op, services |-> services]

ReviewsRoutes ==
    { Route("GET /api/reviews", {"getReviewsWithFilters"}),
      Route("GET /api/reviews/:id", {"getReviewById"}),
      Route("POST /api/reviews", {"saveReview"}),
      Route("PUT /api/reviews/:id", {"getReviewById", "updateReviewById"}),
      Route("DELETE /api/reviews/:id", {"deleteReviewById"}) }

ExportRoutes ==
    { Route("GET /api/export", {"getAllReviews"}),
      Route("GET /api/export/csv", {"getReviewsWithFilters"}),
      Route("GET /api/export/json", {"getReviewsWithFilters"}),
      Route("GET /api/export/summary", {"getAllReviews"}) }

UsageRoutes ==
    { Route("GET /api/usage/details", {"getReviewsWithFilters"}),
      Route("GET /api/usage/summary", {"getAllReviews"}) }

MetricsRoutes ==
    { Route("GET /api/metrics", {"generateMetrics"}),
      Route("GET /api/metrics/timeseries", {"getAllReviews"}),
      Route("GET /api/metrics/summary", {"getAllReviews"}) }

\* the catch blocks of the handlers
CatchReviews(op, message) == InternalError

CatchExport(op, message) ==
    IF op = "GET /api/export"
    THEN Failure(500, "Database export failed", <<message>>)
    ELSE InternalError

CatchUsage(op, message) == InternalError

CatchMetrics(op, message) ==
    IF op = "GET /api/metrics"
    THEN Failure(500, "Failed to generate dashboard metrics", <<message>>)
    ELSE InternalError

\* a request whose storage call fails: nothing is written
Failing(route, id, body, response) ==
    /\ numReq < MaxRequests
    /\ numReq' = numReq + 1
    /\ req' = Request(route.op, id, body)
    /\ res' = response
    /\ UNCHANGED <<store, uuids, now, born, gone>>

ReviewsFailure ==
    \E route \in ReviewsRoutes, service \in {"getReviewById", "saveReview",
            "updateReviewById", "deleteReviewById", "getReviewsWithFilters"},
       id \in RequestIds, body \in PutBodies :
        /\ service \in route.services
        /\ Failing(route,
                   IF route.op \in {"GET /api/reviews", "POST /api/reviews"}
                   THEN "" ELSE id,
                   IF route.op = "PUT /api/reviews/:id"
                   THEN body ELSE NoObj("undefined"),
                   CatchReviews(route.op, ServiceError(service)))

ExportFailure ==
    \E route \in ExportRoutes, service \in {"getAllReviews", "getReviewsWithFilters"} :
        /\ service \in route.services
        /\ Failing(route, "", NoObj("undefined"),
                   CatchExport(route.op, ServiceError(service)))

UsageFailure ==
    \E route \in UsageRoutes, service \in {"getAllReviews", "getReviewsWithFilters"} :
        /\ service \in route.services
        /\ Failing(route, "", NoObj("undefined"),
                   CatchUsage(route.op, ServiceError(service)))

MetricsFailure ==
    \E route \in MetricsRoutes, service \in {"getAllReviews", "generateMetrics"} :
        /\ service \in route.services
        /\ Failing(route, "", NoObj("undefined"),
                   CatchMetrics(route.op, ServiceError(service)))

\* the error-handling middleware of index.js, for an error no handler caught
UnhandledError ==
    Failing(Route("unhandled", {}), "", NoObj("undefined"),
            Failure(500, "Internal server error", <<>>))

InitFailures ==
    /\ store = <<>>
    /\ uuids = 0
    /\ now = 3
    /\ req = Request("none", "", NoObj("undefined"))
    /\ res = Response(0, NoObj("undefined"))
    /\ numReq = 0
    /\ born = {}
    /\ gone = {}

NextFailures ==
    \/ ReviewsFailure
    \/ ExportFailure
    \/ UsageFailure
    \/ MetricsFailure
    \/ UnhandledError

SpecFailures == InitFailures /\ [][NextFailures]_vars

\* C23: the body of every 500 response is success: false with a generic
\* error text and no details: the message of the caught error is not in it.
C23_GenericBody ==
    res.status = 500 =>
        /\ res.success = FALSE
        /\ res.data = NoObj("undefined")
        /\ res.details = <<>>
        /\ res.error \in {"Internal server error", "Database export failed",
                          "Failed to generate dashboard metrics"}

\* ---------------------------------------------------------------------
\* Handlers in flight together (routes/reviews.js).  A handler runs up to
\* its next await and then gives way: the service call in front of the
\* await has run by then, what follows the await runs in a later step, and
\* steps of other handlers may come in between.  Here req and res hold one
\* entry per handler.
\* ---------------------------------------------------------------------

Handlers == {1, 2}

Idle ==
    [op |-> "none", id |-> "", body |-> NoObj("undefined"), pc |-> "idle",
     existingReview |-> NoObj("undefined"), savedReview |-> NoObj("undefined"),
     deleted |-> FALSE]

\* router.put('/:id') up to "await getReviewById(req.params.id)"
PutBegin(h, id, body) ==
    /\ req[h].pc = "idle"
    /\ numReq' = numReq + 1
    /\ req' = [req EXCEPT ![h] = [Idle EXCEPT !.op = "PUT", !.id = id,
                                              !.body = body, !.pc = "read",
                                              !.existingReview = getReviewById(id)]]
    /\ UNCHANGED <<store, uuids, now, res, born, gone>>

\* router.put('/:id') from there up to "await updateReviewById(...)", or to
\* the response if it answers before
PutWrite(h) ==
    LET r == req[h]
        validation == validateUpdateData(r.body)
        updatedReview == updateReview(r.existingReview.o, r.body.o)
        saved == updateReviewById(r.id, updatedReview)
        answer(response) ==
            /\ res' = [res EXCEPT ![h] = response]
            /\ req' = [req EXCEPT ![h].pc = "done"]
            /\ store' = store
    IN /\ r.pc = "read"
       /\ UNCHANGED <<uuids, now, numReq, born, gone>>
       /\ IF r.existingReview.t = "null" THEN answer(NotFound)
          ELSE IF validation.threw THEN answer(InternalError)
          ELSE IF ~validation.isValid THEN answer(ValidationFailed(validation.errors))
          ELSE IF saved.threw THEN answer(InternalError)
          ELSE /\ store' = saved.table
               /\ req' = [req EXCEPT ![h].pc = "written",
                                     ![h].savedReview = saved.value]
               /\ res' = res

\* router.put('/:id'): res.json({ success: true, data: savedReview })
PutRespond(h) ==
    /\ req[h].pc = "written"
    /\ res' = [res EXCEPT ![h] = Response(200, req[h].savedReview)]
    /\ req' = [req EXCEPT ![h].pc = "done"]
    /\ UNCHANGED <<store, uuids, now, numReq, born, gone>>

\* router.delete('/:id') up to "await deleteReviewById(req.params.id)"
DeleteBegin(h, id) ==
    LET deleted == deleteReviewById(id)
    IN /\ req[h].pc = "idle"
       /\ numReq' = numReq + 1
       /\ req' = [req EXCEPT ![h] = [Idle EXCEPT !.op = "DELETE", !.id = id,
                                                 !.pc = "deleted",
                                                 !.deleted = deleted.value]]
       /\ store' = deleted.table
       /\ UNCHANGED <<uuids, now, res, born, gone>>

\* router.delete('/:id') after the await
DeleteRespond(h) ==
    /\ req[h].pc = "deleted"
    /\ res' = [res EXCEPT ![h] = IF ~req[h].deleted THEN NotFound
                                 ELSE Response(200, NoObj("undefined"))]
    /\ req' = [req EXCEPT ![h].pc = "done"]
    /\ UNCHANGED <<store, uuids, now, numReq, born, gone>>

ConcurrentBodies ==
    { Obj([rating |-> Num(4)]), Obj([status |-> Str("rejected")]),
      Obj([title |-> Str("Fast"), comment |-> Str("Better")]),
      Obj([rating |-> Num(0)]) }

ConcurrentIds == {UUIDs[1], "no-such-id"}

InitConcurrent ==
    /\ store = << QueryRow(1, "c1", 5, "pending", 1),
                  QueryRow(2, "c2", 1, "approved", 1) >>
    /\ uuids = 2
    /\ now = 2
    /\ req = [h \in Handlers |-> Idle]
    /\ res = [h \in Handlers |-> Response(0, NoObj("undefined"))]
    /\ numReq = 0
    /\ born = {UUIDs[1], UUIDs[2]}
    /\ gone = {}

NextConcurrent ==
    \/ \E h \in Handlers, id \in ConcurrentIds, body \in ConcurrentBodies :
          PutBegin(h, id, body)
    \/ \E h \in Handlers : PutWrite(h)
    \/ \E h \in Handlers : PutRespond(h)
    \/ \E h \in Handlers, id \in ConcurrentIds : DeleteBegin(h, id)
    \/ \E h \in Handlers : DeleteRespond(h)

SpecConcurrent == InitConcurrent /\ [][NextConcurrent]_vars

\* handler h writes its update to a stored row in this step
Writes(h) ==
    /\ req[h].pc = "read"
    /\ req'[h].pc = "written"
    /\ RowIndex(store, req[h].id) /= {}

\* C24: when a PUT writes, the columns its body does not name (updatedAt
\* aside) keep the values they have in the store at that moment, also when
\* another PUT on the same review wrote after this handler read the review:
\* of two updates of disjoint fields both changes stay.
C24_NoLostUpdate ==
    [][\A h \in Handlers :
          Writes(h) =>
              \A c \in Columns \ ((DOMAIN req[h].body.o) \cup {"updatedAt"}) :
                  RowOf(store', req[h].id)[c] = RowOf(store, req[h].id)[c]]_vars

\* C26: a PUT that answers 200 has the updated review in data, never null:
\* when the review is deleted between the existence check and the write,
\* the answer is not a success.
C26_SuccessCarriesReview ==
    \A h \in Handlers :
        (req[h].op = "PUT" /\ res[h].status = 200) => res[h].data.t = "object"

\* ---------------------------------------------------------------------
\* Further properties of the CRUD handlers (specification Spec).
\* ---------------------------------------------------------------------

\* C25: PUT looks the review up before it validates the body: for an id
\* that is not stored the answer is 404 whatever the body, and 400 is
\* answered only for a stored id with a body that fails validation.
C25_ExistenceBeforeValidation ==
    [][(RequestStep /\ req'.op = "PUT") =>
          /\ RowIndex(store, req'.id) = {} => res'.status = 404
          /\ res'.status = 400 =>
                /\ RowIndex(store, req'.id) /= {}
                /\ ~validateUpdateData(req'.body).threw
                /\ ~validateUpdateData(req'.body).isValid]_vars

\* C25 witness: a PUT with a rating out of range for an id that is not
\* stored, while another review is, was answered 404.
C25_Witness ==
    /\ req.op = "PUT"
    /\ req.id = "no-such-id"
    /\ req.body = Obj([rating |-> Num(0)])
    /\ store /= <<>>
    /\ res.status = 404

\* C27: the review in the body of a successful PUT is, field by field, the
\* review a following GET of the same id returns (the stored row), for
\* every accepted body, also one that names id or createdAt.
C27_PutEqualsGet ==
    (req.op = "PUT" /\ res.status = 200) =>
        /\ RowIndex(store, req.id) /= {}
        /\ res.data = Obj(RowOf(store, req.id))

\* ---------------------------------------------------------------------
\* Further properties of getReviewsWithFilters (specification SpecQuery).
\* ---------------------------------------------------------------------

\* C28: the query getReviewsWithFilters builds is well formed for every
\* options object (an OFFSET clause only after a LIMIT clause, so the
\* statement prepares and the call does not throw), and with an offset and
\* no limit it returns the matching reviews without the first offset ones.
C28_OffsetWithoutLimit ==
    req.op = "getReviewsWithFilters" =>
        LET options == req.body.o
            skipped == Get(options, "offset").n
        IN /\ ~res.threw
           /\ (Truthy(Get(options, "offset")) /\ ~Truthy(Get(options, "limit"))) =>
                 Len(res.reviews) =
                    IF res.total > skipped THEN res.total - skipped ELSE 0

\* ---------------------------------------------------------------------
\* Further properties of calculateDailyMetrics (specification SpecDaily).
\* ---------------------------------------------------------------------

\* the sum of 'Reviews submitted' over the buckets
RECURSIVE TotalSubmitted(_)
TotalSubmitted(buckets) ==
    IF buckets = <<>> THEN 0
    ELSE Head(buckets)["Reviews submitted"].n + TotalSubmitted(Tail(buckets))

\* C29: for every review list and range startDate <= endDate, in every
\* bucket approved + pending + rejected = 'Reviews submitted' = 'Customer
\* interactions' and '5-star reviews' + 'Support escalations' <= 'Reviews
\* submitted', and the 'Reviews submitted' of all buckets add up to the
\* number of reviews whose creation date is a day from startDate's to
\* endDate's: each such review is counted in exactly one bucket.
C29_EachReviewCountedOnce ==
    req.op = "calculateDailyMetrics" =>
        LET start == DateParse(req.body.o.startDate.s)
            end == DateParse(req.body.o.endDate.s)
            days == DaysBetween(start, end)
            within == UNION {CreatedOn(days[k]) : k \in 1..Len(days)}
        IN start <= end =>
              /\ \A b \in 1..Len(res) :
                    /\ res[b]["Reviews approved"].n + res[b]["Reviews pending"].n
                          + res[b]["Reviews rejected"].n
                       = res[b]["Reviews submitted"].n
                    /\ res[b]["Customer interactions"] = res[b]["Reviews submitted"]
                    /\ res[b]["5-star reviews"].n + res[b]["Support escalations"].n
                       <= res[b]["Reviews submitted"].n
              /\ TotalSubmitted(res) = Cardinality(within)

\* ---------------------------------------------------------------------
\* JSON export (routes/export.js): GET /api/export when JSON is negotiated
\* and GET /api/export/json.  Query parameters are strings.
\* ---------------------------------------------------------------------

\* statements.getAllReviews.all() on a table whose createdAt texts are
\* those of the Timeline: every listing in which createdAt never increases
AllReviews ==
    { [j \in 1..Len(store) |-> store[order[j]]] :
        order \in OrderedDesc(store, 1..Len(store)) }

\* the options object of router.get('/json') after its undefined members
\* are deleted
ExportOptions(query) ==
    Defined([ status |-> Get(query, "status"),
              rating |-> IF Truthy(Get(query, "rating"))
                         THEN Num(ParseInt(query.rating)) ELSE Undef,
              customerId |-> Get(query, "customerId"),
              limit |-> IF Truthy(Get(query, "limit"))
                        THEN Num(ParseInt(query.limit)) ELSE Undef,
              offset |-> IF Truthy(Get(query, "offset"))
                         THEN Num(ParseInt(query.offset)) ELSE Undef ])

\* the body of a JSON export; filters is undefined for GET /api/export
ExportBody(totalRecords, filters, data) ==
    [status |-> 200, totalRecords |-> Num(totalRecords), filters |-> filters,
     data |-> data]

ExportHeaders ==
    { NoHeader, Header(<<>>),
      Header(<<Candidate("", "application/json", "")>>),
      Header(<<Candidate("", "text/html", ""),
               Candidate(" ", "application/json", ";q=0.9")>>) }

ExportQueries ==
    { EmptyObj, [status |-> Str("approved")], [rating |-> Str("5")],
      [customerId |-> Str("c1")], [limit |-> Str("1")], [limit |-> Str("0")],
      [limit |-> Str("2"), offset |-> Str("1")], [offset |-> Str("1")],
      [status |-> Str("approved"), limit |-> Str("1")] }

InitExport ==
    /\ store \in UsageTables
    /\ uuids = Len(store)
    /\ now = 3
    /\ req \in {Request("input /", "", h) : h \in ExportHeaders}
             \cup {Request("input /json", "", Obj(q)) : q \in ExportQueries}
    /\ res = Response(0, NoObj("undefined"))
    /\ numReq = 0
    /\ born = {}
    /\ gone = {}

\* router.get('/') for a header that negotiates JSON
GetExport ==
    /\ req.op = "input /"
    /\ parseAcceptHeader(req.body) = "json"
    /\ req' = [req EXCEPT !.op = "GET /api/export"]
    /\ \E allReviews \in AllReviews :
          res' = ExportBody(Len(allReviews), NoObj("undefined"), allReviews)
    /\ UNCHANGED <<store, uuids, now, numReq, born, gone>>

\* router.get('/json')
GetExportJson ==
    /\ req.op = "input /json"
    /\ req' = [req EXCEPT !.op = "GET /api/export/json"]
    /\ \E result \in getReviewsWithFilters(ExportOptions(req.body.o)) :
          res' = IF result.threw THEN InternalError
                 ELSE ExportBody(result.total, Obj(ExportOptions(req.body.o)),
                                 result.reviews)
    /\ UNCHANGED <<store, uuids, now, numReq, born, gone>>

NextExport == GetExport \/ GetExportJson

SpecExport == InitExport /\ [][NextExport]_vars

\* C30: in every JSON export response, from GET /api/export and from
\* GET /api/export/json with any filters, limit and offset, totalRecords is
\* the number of records in data.
C30_TotalRecordsIsDataLength ==
    (req.op \in {"GET /api/export", "GET /api/export/json"} /\ res.status = 200) =>
        res.totalRecords = Num(Len(res.data))

====
